---- MODULE Spec2Model ----
(***************************************************************************)
(* Arduino EasyScript (AES) language service: src/src/aes/service.js.      *)
(*                                                                         *)
(* AES.transpile(source) runs AES.extractSymbols over every line (the      *)
(* symbol pass), then walks the lines again (the block pass) with a block  *)
(* stack and an ordered table of command handlers.  AES.format(source) is  *)
(* an independent single-pass re-indenter.                                 *)
(*                                                                         *)
(* Representation.  For the compiler a source line is the sequence of its  *)
(* whitespace-separated tokens, as left by stripComments(raw).trim(): the  *)
(* regular expressions of the source are read on tokens separated by one   *)
(* space.  A Map is the sequence of its entries in insertion order.  A     *)
(* template string is the sequence of its pieces.  For the formatter a     *)
(* line is a sequence of characters and indivisible words.                 *)
(***************************************************************************)
EXTENDS Integers, Sequences, FiniteSets, TLC

VARIABLES
  src,          \* transpile: lines = src.split("\n"), each line tokenised
  pc,           \* position of the run: "scan", "walk", "done", or "format"
  i,            \* loop index of the pass under way (0-based, as in the code)
  inStructure,  \* extractSymbols: let inStructure
  symbols,      \* { pins, vars, funcs }
  diagnostics,  \* the diagnostics array
  setupBody,    \* transpile: const setupBody
  loopBody,     \* transpile: const loopBody
  funcBodies,   \* transpile: Map name -> array
  current,      \* transpile: let current (Null or {type, name})
  stack,        \* transpile: const stack
  sawSetup,
  sawLoop,
  internalId,
  text,         \* format: the source text, a sequence of raw lines
  fpos,         \* format: number of lines of the current pass consumed
  indent,       \* format: let indent
  out,          \* format: const out
  once,         \* format: the result of the first call, once it has returned
  sketch,       \* transpile: const cpp, the lines of the assembled output
  millis,       \* the board: millis(), an unsigned long
  statics,      \* the board: the static variables of loop() that are initialised
  ip,           \* the board: number of lines of the loop body executed in this pass
  fired,        \* the board: number of times a timer block was entered
  elapsed,      \* the board: milliseconds since the first pass through loop()
  results,      \* the editor: what each call so far returned, by call and source
  calls         \* the editor: number of calls of the service made so far

vars == <<src, pc, i, inStructure, symbols, diagnostics, setupBody, loopBody,
          funcBodies, current, stack, sawSetup, sawLoop, internalId,
          text, fpos, indent, out, once,
          sketch, millis, statics, ip, fired, elapsed, results, calls>>

compileVars == <<src, i, inStructure, symbols, diagnostics, setupBody, loopBody,
                 funcBodies, current, stack, sawSetup, sawLoop, internalId, sketch>>

formatVars == <<text, fpos, indent, out, once>>

boardVars == <<millis, statics, ip, fired, elapsed>>

editorVars == <<results, calls>>

Null == [type |-> "null", name |-> ""]

-----------------------------------------------------------------------------
(* Bounds of the model.                                                    *)

MaxLines == 4

-----------------------------------------------------------------------------
(* Reserved words and board preset.                                        *)

RESERVED ==
  { "setup","loop","Serial","delay","delayMicroseconds","millis","micros","pinMode",
    "digitalWrite","digitalRead","analogRead","analogWrite",
    "tone","noTone","map","random","randomSeed","HIGH","LOW","INPUT","OUTPUT","INPUT_PULLUP",
    "true","false","int","long","float","double","char","bool","void","String",
    "pin","make","turn","toggle","read","analog","into","set","change","by","to",
    "wait","ms","second","seconds",
    "start","serial","print","call","seed",
    "if","otherwise","do","end","repeat","times","forever","while","every","after","is" }

BoardDigitalMin == 0
BoardDigitalMax == 13
BoardAnalogPins == {"A0","A1","A2","A3","A4","A5"}

-----------------------------------------------------------------------------
(* Small helpers, on the tokens the model's sources are made of.           *)

\* Number(t) for the tokens matching /^-?\d+$/.
IntLiteralValue ==
  ("0" :> 0) @@ ("1" :> 1) @@ ("2" :> 2) @@ ("3" :> 3) @@ ("13" :> 13) @@
  ("14" :> 14) @@ ("250" :> 250) @@ ("500" :> 500) @@ ("-1" :> (0 - 1))

\* Tokens matching /^"([^"\\]|\\.)*"$/.
StringLiterals == {"\"s\"", "\"\""}

\* Tokens of the model that do not match /^[A-Za-z_][A-Za-z0-9_]*$/.
NonIdentifiers ==
  DOMAIN IntLiteralValue \cup StringLiterals \cup
  {"setup:", "loop:", "do:", ":", "otherwise:", "1.5",
   ">", "<", ">=", "<=", "!=", "==", "&&", "||"}

isIdentifier(s) == s \notin NonIdentifiers
isIntLiteral(s) == s \in DOMAIN IntLiteralValue
isAnalogLiteral(s) ==
  s \in {"A0","A1","A2","A3","A4","A5","a0","a1","a2","a3","a4","a5"}

\* String.prototype.toLowerCase / toUpperCase on the model's tokens.
toLowerCase(s) ==
  CASE s = "END" -> "end"
    [] s = "Setup:" -> "setup:"
    [] s = "A0" -> "a0"
    [] s = "A1" -> "a1"
    [] s = "A6" -> "a6"
    [] s = "PIN" -> "pin"
    [] OTHER -> s

toUpperCase(s) ==
  CASE s = "a0" -> "A0"
    [] s = "a1" -> "A1"
    [] s = "a6" -> "A6"
    [] OTHER -> s

\* toks.slice(from) with a 1-based first index.
Slice(toks, from) == SubSeq(toks, from, Len(toks))

-----------------------------------------------------------------------------
(* Symbols (pins, variables, functions).                                   *)

makeSymbols == [pins |-> <<>>, vars |-> <<>>, funcs |-> <<>>]

\* Map.has / Map.get / Map.set on a sequence of entries keyed by .name
Has(m, name) == \E k \in 1..Len(m) : m[k].name = name
Get(m, name) == m[CHOOSE k \in 1..Len(m) : m[k].name = name]
Put(m, entry) ==
  IF Has(m, entry.name)
  THEN [k \in 1..Len(m) |-> IF m[k].name = entry.name THEN entry ELSE m[k]]
  ELSE Append(m, entry)

Diag(lineNo, severity, message) ==
  [line |-> lineNo, col |-> 1, severity |-> severity, message |-> message]

\* An environment is the pair the symbol functions mutate.
Env(sym, diag) == [symbols |-> sym, diagnostics |-> diag]
Push(E, d) == [E EXCEPT !.diagnostics = Append(@, d)]

inferTypeFromExpr(expr) ==
  IF Len(expr) = 1 /\ expr[1] \in StringLiterals THEN "String"
  ELSE IF Len(expr) = 1 /\ expr[1] \in {"true", "false"} THEN "bool"
  ELSE IF Len(expr) = 1 /\ expr[1] = "1.5" THEN "float"
  ELSE "long"

TYPE_RANK ==
  [t \in {"bool", "int", "long", "unsigned long", "float", "String"} |->
     CASE t = "bool" -> 1
       [] t = "int" -> 2
       [] t = "long" -> 3
       [] t = "unsigned long" -> 4
       [] t = "float" -> 5
       [] t = "String" -> 6]

rank(t) == IF t \in DOMAIN TYPE_RANK THEN TYPE_RANK[t] ELSE 3

\* The identifiers /[A-Za-z_][A-Za-z0-9_]*/g finds inside one token.
IdentifiersOfToken(t) ==
  CASE t = "\"s\"" -> <<"s">>
    [] t = "setup:" -> <<"setup">>
    [] t = "loop:" -> <<"loop">>
    [] t = "do:" -> <<"do">>
    [] t = "otherwise:" -> <<"otherwise">>
    [] t \in NonIdentifiers -> <<>>
    [] OTHER -> <<t>>

RECURSIVE FlatMap(_, _)
FlatMap(Op(_), s) ==
  IF s = <<>> THEN <<>> ELSE Op(Head(s)) \o FlatMap(Op, Tail(s))

RECURSIVE Filter(_, _)
Filter(Test(_), s) ==
  IF s = <<>> THEN <<>>
  ELSE IF Test(Head(s)) THEN <<Head(s)>> \o Filter(Test, Tail(s))
  ELSE Filter(Test, Tail(s))

\* ensureVar taking the type of the latest observation, whatever its rank.
ensureVarLatest(E, name, typeHint, lineNo) ==
  IF ~isIdentifier(name) THEN E
  ELSE IF name \in RESERVED
  THEN Push(E, Diag(lineNo, "error", <<"\"", name, "\" is reserved. Pick a different name.">>))
  ELSE IF Has(E.symbols.pins, name)
  THEN Push(E, Diag(lineNo, "error", <<"\"", name, "\" is a pin name. Use a different variable name.">>))
  ELSE IF ~Has(E.symbols.vars, name)
  THEN [E EXCEPT !.symbols.vars = Append(@, [name |-> name, type |-> typeHint, line |-> lineNo])]
  ELSE [E EXCEPT !.symbols.vars = Put(@, [Get(@, name) EXCEPT !.type = typeHint])]

\* ensureVar recording the line of the upgrade with the new type.
ensureVarRelined(E, name, typeHint, lineNo) ==
  IF ~isIdentifier(name) THEN E
  ELSE IF name \in RESERVED
  THEN Push(E, Diag(lineNo, "error", <<"\"", name, "\" is reserved. Pick a different name.">>))
  ELSE IF Has(E.symbols.pins, name)
  THEN Push(E, Diag(lineNo, "error", <<"\"", name, "\" is a pin name. Use a different variable name.">>))
  ELSE IF ~Has(E.symbols.vars, name)
  THEN [E EXCEPT !.symbols.vars = Append(@, [name |-> name, type |-> typeHint, line |-> lineNo])]
  ELSE
    LET existing == Get(E.symbols.vars, name)
        E1 == IF (existing.type = "String" /\ typeHint # "String") \/
                 (existing.type # "String" /\ typeHint = "String")
              THEN Push(E, Diag(lineNo, "warning",
                     <<"Variable \"", name, "\" changes type (", existing.type, " <-> ",
                       typeHint, "). Arduino C++ might not like that.">>))
              ELSE E
    IN IF rank(typeHint) > rank(existing.type)
       THEN [E1 EXCEPT !.symbols.vars = Put(@, [name |-> name, type |-> typeHint, line |-> lineNo])]
       ELSE E1

ensureVar(E, name, typeHint, lineNo) ==
  IF ~isIdentifier(name) THEN E
  ELSE IF name \in RESERVED
  THEN Push(E, Diag(lineNo, "error", <<"\"", name, "\" is reserved. Pick a different name.">>))
  ELSE IF Has(E.symbols.pins, name)
  THEN Push(E, Diag(lineNo, "error", <<"\"", name, "\" is a pin name. Use a different variable name.">>))
  ELSE IF ~Has(E.symbols.vars, name)
  THEN [E EXCEPT !.symbols.vars = Append(@, [name |-> name, type |-> typeHint, line |-> lineNo])]
  ELSE
    LET existing == Get(E.symbols.vars, name)
        rOld == rank(existing.type)
        rNew == rank(typeHint)
        E1 == IF (existing.type = "String" /\ typeHint # "String") \/
                 (existing.type # "String" /\ typeHint = "String")
              THEN Push(E, Diag(lineNo, "warning",
                     <<"Variable \"", name, "\" changes type (", existing.type, " <-> ",
                       typeHint, "). Arduino C++ might not like that.">>))
              ELSE E
    IN IF rNew > rOld
       THEN [E1 EXCEPT !.symbols.vars = Put(@, [existing EXCEPT !.type = typeHint])]
       ELSE E1

\* for (const id of ids) ensureVar(symbols, id, "long", lineNo, diag)
RECURSIVE ensureVars(_, _, _, _)
ensureVars(E, ids, typeHint, lineNo) ==
  IF ids = <<>> THEN E
  ELSE ensureVars(ensureVar(E, Head(ids), typeHint, lineNo), Tail(ids), typeHint, lineNo)

\* Number -> String for the numbers the model's literals denote.
NumberToString(n) == CHOOSE t \in DOMAIN IntLiteralValue : IntLiteralValue[t] = n

\* String(n) as the pieces of its decimal expansion.
DigitChar == <<"0", "1", "2", "3", "4", "5", "6", "7", "8", "9">>
RECURSIVE Decimal(_)
Decimal(n) ==
  IF n < 0 THEN <<"-">> \o Decimal(0 - n)
  ELSE IF n < 10 THEN <<DigitChar[n + 1]>>
  ELSE Decimal(n \div 10) \o <<DigitChar[(n % 10) + 1]>>

NoPin == [ok |-> FALSE, cpp |-> "", kind |-> "", consumed |-> 0]

\* parsePinLiteral refusing a digital number outside the board's range.
parsePinLiteralInRange(E, tok, lineNo) ==
  IF Len(tok) # 1 THEN [E |-> E, res |-> NoPin]
  ELSE
    LET t == tok[1] IN
    IF isAnalogLiteral(t)
    THEN [E |-> E, res |-> [ok |-> TRUE, cpp |-> toUpperCase(t), kind |-> "analog", consumed |-> 0]]
    ELSE IF isIntLiteral(t)
    THEN LET n == IntLiteralValue[t] IN
         IF n < BoardDigitalMin \/ n > BoardDigitalMax
         THEN [E |-> Push(E, Diag(lineNo, "error",
                       <<"Pin ", NumberToString(n), " is outside the default UNO range (0..13).">>)),
               res |-> NoPin]
         ELSE [E |-> E, res |-> [ok |-> TRUE, cpp |-> NumberToString(n), kind |-> "digital", consumed |-> 0]]
    ELSE IF isIdentifier(t) /\ Has(E.symbols.pins, t)
    THEN [E |-> E, res |-> [ok |-> TRUE, cpp |-> t, kind |-> "pinVar", consumed |-> 0]]
    ELSE [E |-> E, res |-> NoPin]

\* tok is the literal's text as a token sequence; a text with a blank inside
\* matches none of the three shapes.
parsePinLiteral(E, tok, lineNo) ==
  IF Len(tok) # 1 THEN [E |-> E, res |-> NoPin]
  ELSE
    LET t == tok[1] IN
    IF isAnalogLiteral(t)
    THEN LET cpp == toUpperCase(t) IN
         [E |-> IF cpp \notin BoardAnalogPins
                THEN Push(E, Diag(lineNo, "warning", <<cpp, " isn't in the default UNO analog list.">>))
                ELSE E,
          res |-> [ok |-> TRUE, cpp |-> cpp, kind |-> "analog", consumed |-> 0]]
    ELSE IF isIntLiteral(t)
    THEN LET n == IntLiteralValue[t] IN
         [E |-> IF n < BoardDigitalMin \/ n > BoardDigitalMax
                THEN Push(E, Diag(lineNo, "warning",
                       <<"Pin ", NumberToString(n), " is outside the default UNO range (0..13).">>))
                ELSE E,
          res |-> [ok |-> TRUE, cpp |-> NumberToString(n), kind |-> "digital", consumed |-> 0]]
    ELSE IF isIdentifier(t) /\ Has(E.symbols.pins, t)
    THEN [E |-> E, res |-> [ok |-> TRUE, cpp |-> t, kind |-> "pinVar", consumed |-> 0]]
    ELSE [E |-> E, res |-> NoPin]

\* definePin without the test of the variable table.
definePinOverVariable(E, name, pinLiteral, lineNo) ==
  IF ~isIdentifier(name)
  THEN Push(E, Diag(lineNo, "error", <<"Pin name must be a valid identifier (letters, numbers, underscore).">>))
  ELSE IF name \in RESERVED
  THEN Push(E, Diag(lineNo, "error", <<"\"", name, "\" is reserved. Pick a different pin name.">>))
  ELSE IF Has(E.symbols.funcs, name)
  THEN Push(E, Diag(lineNo, "error", <<"\"", name, "\" is already a function. Pins and functions need different names.">>))
  ELSE IF Has(E.symbols.pins, name)
  THEN Push(E, Diag(lineNo, "error", <<"Pin \"", name, "\" is already defined.">>))
  ELSE
    LET parsed == parsePinLiteral(E, pinLiteral, lineNo) IN
    IF ~parsed.res.ok THEN parsed.E
    ELSE [parsed.E EXCEPT !.symbols.pins =
            Put(@, [name |-> name, cpp |-> parsed.res.cpp, raw |-> pinLiteral, line |-> lineNo])]

definePin(E, name, pinLiteral, lineNo) ==
  IF ~isIdentifier(name)
  THEN Push(E, Diag(lineNo, "error", <<"Pin name must be a valid identifier (letters, numbers, underscore).">>))
  ELSE IF name \in RESERVED
  THEN Push(E, Diag(lineNo, "error", <<"\"", name, "\" is reserved. Pick a different pin name.">>))
  ELSE IF Has(E.symbols.vars, name)
  THEN Push(E, Diag(lineNo, "error", <<"\"", name, "\" is already a variable. Pins and variables need different names.">>))
  ELSE IF Has(E.symbols.funcs, name)
  THEN Push(E, Diag(lineNo, "error", <<"\"", name, "\" is already a function. Pins and functions need different names.">>))
  ELSE IF Has(E.symbols.pins, name)
  THEN Push(E, Diag(lineNo, "error", <<"Pin \"", name, "\" is already defined.">>))
  ELSE
    LET parsed == parsePinLiteral(E, pinLiteral, lineNo) IN
    IF ~parsed.res.ok THEN parsed.E
    ELSE [parsed.E EXCEPT !.symbols.pins =
            Put(@, [name |-> name, cpp |-> parsed.res.cpp, raw |-> pinLiteral, line |-> lineNo])]

defineFunction(E, name, lineNo) ==
  IF ~isIdentifier(name)
  THEN Push(E, Diag(lineNo, "error", <<"Function name must be a valid identifier.">>))
  ELSE IF name \in RESERVED
  THEN Push(E, Diag(lineNo, "error", <<"\"", name, "\" is reserved. Pick a different function name.">>))
  ELSE IF Has(E.symbols.pins, name)
  THEN Push(E, Diag(lineNo, "error", <<"\"", name, "\" is a pin name. Use a different function name.">>))
  ELSE IF Has(E.symbols.vars, name)
  THEN Push(E, Diag(lineNo, "error", <<"\"", name, "\" is a variable name. Use a different function name.">>))
  ELSE IF Has(E.symbols.funcs, name)
  THEN Push(E, Diag(lineNo, "error", <<"Function \"", name, "\" already exists.">>))
  ELSE [E EXCEPT !.symbols.funcs = Put(@, [name |-> name, line |-> lineNo])]

resolvePinRef(E, tokens, lineNo) ==
  IF tokens = <<>> THEN [E |-> E, res |-> NoPin]
  ELSE IF toLowerCase(tokens[1]) = "pin"
  THEN IF Len(tokens) < 2
       THEN [E |-> Push(E, Diag(lineNo, "error", <<"Expected a pin after \"pin\". Example: pin 13">>)),
             res |-> NoPin]
       ELSE LET parsed == parsePinLiteral(E, <<tokens[2]>>, lineNo) IN
            IF ~parsed.res.ok
            THEN [E |-> Push(parsed.E, Diag(lineNo, "error",
                          <<"I don't recognize pin \"", tokens[2], "\". Use 0..13 or A0..A5 (or a pin name).">>)),
                  res |-> NoPin]
            ELSE [E |-> parsed.E, res |-> [parsed.res EXCEPT !.consumed = 2]]
  ELSE LET parsed == parsePinLiteral(E, <<tokens[1]>>, lineNo) IN
       IF parsed.res.ok THEN [E |-> parsed.E, res |-> [parsed.res EXCEPT !.consumed = 1]]
       ELSE IF isIdentifier(tokens[1]) /\ Has(E.symbols.pins, tokens[1])
       THEN [E |-> parsed.E, res |-> [ok |-> TRUE, cpp |-> tokens[1], kind |-> "pinVar", consumed |-> 1]]
       ELSE [E |-> Push(parsed.E, Diag(lineNo, "error",
                     <<"Expected a pin (number, A0..A5, or a pin name). Got \"", tokens[1], "\".">>)),
             res |-> NoPin]

KeepIdentifier(id) == id \notin RESERVED /\ ~isAnalogLiteral(id)
extractIdentifiersFromExpr(expr) == Filter(KeepIdentifier, FlatMap(IdentifiersOfToken, expr))

\* t.replace(re, op) for a phrase of whole words, /gi: every occurrence, left to right.
RECURSIVE ReplacePhrase(_, _, _)
ReplacePhrase(toks, phrase, op) ==
  IF Len(toks) < Len(phrase) THEN toks
  ELSE IF \A k \in 1..Len(phrase) : toLowerCase(toks[k]) = phrase[k]
  THEN <<op>> \o ReplacePhrase(Slice(toks, Len(phrase) + 1), phrase, op)
  ELSE <<Head(toks)>> \o ReplacePhrase(Tail(toks), phrase, op)

replacements ==
  << <<<<"is", "greater", "than">>, ">">>,
     <<<<"is", "less", "than">>, "<">>,
     <<<<"is", "at", "least">>, ">=">>,
     <<<<"is", "at", "most">>, "<=">>,
     <<<<"is", "not">>, "!=">>,
     <<<<"equals">>, "==">>,
     <<<<"is">>, "==">>,
     <<<<"and">>, "&&">>,
     <<<<"or">>, "||">> >>

\* The text after replacement k is the one element of a set, so that it is
\* computed once before replacement k + 1 reads it.
RECURSIVE ApplyReplacements(_, _)
ApplyReplacements(toks, k) ==
  IF k > Len(replacements) THEN toks
  ELSE CHOOSE r \in { ApplyReplacements(t, k + 1) :
                         t \in {ReplacePhrase(toks, replacements[k][1], replacements[k][2])} } : TRUE

\* String(condText || "").trim() is empty: nothing but whitespace. A
\* token " " stands for whitespace beyond the one blank that separates words.
blankText(condText) == \A k \in 1..Len(condText) : condText[k] = " "

\* parseCondition without its test for a missing condition.
parseConditionUnchecked(E, condText, lineNo) ==
  CHOOSE r \in { [E |-> ensureVars(E, extractIdentifiersFromExpr(t), "long", lineNo),
                  ok |-> TRUE, t |-> t] : t \in {ApplyReplacements(condText, 1)} } : TRUE

\* parseCondition leaving the names of the condition undeclared.
parseConditionAsWritten(E, condText, lineNo) ==
  IF blankText(condText)
  THEN [E |-> Push(E, Diag(lineNo, "error", <<"Condition is missing. Example: if button is 0 do:">>)),
        ok |-> FALSE, t |-> <<>>]
  ELSE [E |-> E, ok |-> TRUE, t |-> ApplyReplacements(condText, 1)]

parseCondition(E, condText, lineNo) ==
  IF blankText(condText)
  THEN [E |-> Push(E, Diag(lineNo, "error", <<"Condition is missing. Example: if button is 0 do:">>)),
        ok |-> FALSE, t |-> <<>>]
  ELSE CHOOSE r \in { [E |-> ensureVars(E, extractIdentifiersFromExpr(t), "long", lineNo),
                        ok |-> TRUE, t |-> t] : t \in {ApplyReplacements(condText, 1)} } : TRUE

NotAPin(E, id) == ~Has(E.symbols.pins, id)

parseExpr(E, expr, lineNo) ==
  IF expr = <<>>
  THEN [E |-> Push(E, Diag(lineNo, "error", <<"Expression is missing.">>)), ok |-> FALSE, t |-> <<>>]
  ELSE LET ids == extractIdentifiersFromExpr(expr)
           Wanted(id) == NotAPin(E, id)
       IN [E |-> ensureVars(E, Filter(Wanted, ids), "long", lineNo), ok |-> TRUE, t |-> expr]

-----------------------------------------------------------------------------
(* Line shapes: the regular expressions of the two passes, on tokens.      *)

Lower(code) == [k \in 1..Len(code) |-> toLowerCase(code[k])]

\* lower === "setup:" and the like: the whole trimmed line is that one word.
IsWord(code, w) == Len(code) = 1 /\ toLowerCase(code[1]) = w

\* /^function\s+([A-Za-z_]\w*)\s*:\s*$/i
matchFunction(code) ==
  /\ Len(code) = 3
  /\ toLowerCase(code[1]) = "function"
  /\ isIdentifier(code[2])
  /\ code[3] = ":"

\* /^pin\s+([A-Za-z_]\w*)\s+is\s+(.+)\s*$/i
matchPinIs(code) ==
  /\ Len(code) >= 4
  /\ toLowerCase(code[1]) = "pin"
  /\ isIdentifier(code[2])
  /\ toLowerCase(code[3]) = "is"

\* /^set\s+([A-Za-z_]\w*)\s+to\s+pin\s+(.+)\s*$/i
matchSetToPin(code) ==
  /\ Len(code) >= 5
  /\ toLowerCase(code[1]) = "set"
  /\ isIdentifier(code[2])
  /\ toLowerCase(code[3]) = "to"
  /\ toLowerCase(code[4]) = "pin"

\* /^read\s+time\s+into\s+([A-Za-z_]\w*)\s*$/i, and the same with micros
matchReadClock(code, clock) ==
  /\ Len(code) = 4
  /\ toLowerCase(code[1]) = "read"
  /\ toLowerCase(code[2]) = clock
  /\ toLowerCase(code[3]) = "into"
  /\ isIdentifier(code[4])

\* /^read\s+.+\s+into\s+([A-Za-z_]\w*)\s*$/i
matchReadInto(code) ==
  /\ Len(code) >= 4
  /\ toLowerCase(code[1]) = "read"
  /\ toLowerCase(code[Len(code) - 1]) = "into"
  /\ isIdentifier(code[Len(code)])

\* /^set\s+([A-Za-z_]\w*)\s+to\s+(.+)\s*$/i
matchSetTo(code) ==
  /\ Len(code) >= 4
  /\ toLowerCase(code[1]) = "set"
  /\ isIdentifier(code[2])
  /\ toLowerCase(code[3]) = "to"

-----------------------------------------------------------------------------
(* AES.extractSymbols: the body of its loop over the lines.  S is the      *)
(* environment with the flag inStructure.                                  *)

hintReadTime(S, code, lineNo) ==
  IF matchReadClock(code, "time") THEN ensureVar(S, code[4], "unsigned long", lineNo) ELSE S

hintReadMicros(S, code, lineNo) ==
  IF matchReadClock(code, "micros") THEN ensureVar(S, code[4], "unsigned long", lineNo) ELSE S

hintReadInto(S, code, lineNo) ==
  IF matchReadInto(code) THEN ensureVar(S, code[Len(code)], "int", lineNo) ELSE S

hintSetTo(S, code, lineNo) ==
  IF matchSetTo(code)
  THEN LET rhs == Slice(code, 4)
           isPinAssign == matchSetToPin(code)
           isPwmWrite == toLowerCase(rhs[1]) = "pwm"
       IN IF ~isPinAssign /\ ~isPwmWrite
          THEN ensureVar(S, code[2], inferTypeFromExpr(rhs), lineNo)
          ELSE S
  ELSE S

extractSymbolsLine(S, code, lineNo) ==
  IF code = <<>> THEN S
  ELSE IF IsWord(code, "setup:") \/ IsWord(code, "loop:") THEN [S EXCEPT !.inStructure = TRUE]
  ELSE IF IsWord(code, "end") THEN [S EXCEPT !.inStructure = FALSE]
  ELSE IF matchFunction(code) THEN defineFunction(S, code[2], lineNo)
  ELSE IF matchPinIs(code)
  THEN IF S.inStructure
       THEN Push(S, Diag(lineNo, "error", <<"Pin declarations must be outside setup:/loop:/function blocks.">>))
       ELSE definePin(S, code[2], Slice(code, 4), lineNo)
  ELSE IF matchSetToPin(code)
  THEN IF S.inStructure
       THEN Push(S, Diag(lineNo, "error",
              <<"Pin assignments must be outside setup:/loop:/function blocks. Use pin NAME is VALUE.">>))
       ELSE definePin(S, code[2], Slice(code, 5), lineNo)
  ELSE hintSetTo(hintReadInto(hintReadMicros(hintReadTime(S, code, lineNo), code, lineNo),
                              code, lineNo), code, lineNo)

\* One iteration of extractSymbols' loop, as called from transpile (line 496).
ScanLine ==
  /\ pc = "scan"
  /\ i < Len(src)
  /\ LET S == extractSymbolsLine(
                [symbols |-> symbols, diagnostics |-> diagnostics, inStructure |-> inStructure],
                src[i + 1], i + 1)
     IN /\ symbols' = S.symbols
        /\ diagnostics' = S.diagnostics
        /\ inStructure' = S.inStructure
  /\ i' = i + 1
  /\ UNCHANGED <<src, pc, setupBody, loopBody, funcBodies, current, stack,
                 sawSetup, sawLoop, internalId>>
  /\ UNCHANGED <<formatVars, boardVars, editorVars, sketch>>

\* extractSymbols returns; transpile copies its result and sets up the walk.
StartWalk ==
  /\ pc = "scan"
  /\ i = Len(src)
  /\ pc' = "walk"
  /\ i' = 0
  /\ setupBody' = <<>>
  /\ loopBody' = <<>>
  /\ funcBodies' = <<>>
  /\ current' = Null
  /\ stack' = <<>>
  /\ sawSetup' = FALSE
  /\ sawLoop' = FALSE
  /\ internalId' = 0
  /\ UNCHANGED <<src, inStructure, symbols, diagnostics>>
  /\ UNCHANGED <<formatVars, boardVars, editorVars, sketch>>

-----------------------------------------------------------------------------
(* AES.transpile: helpers of the block pass.  M is the environment with    *)
(* the three output buffers.                                               *)

Machine ==
  [symbols |-> symbols, diagnostics |-> diagnostics, setupBody |-> setupBody,
   loopBody |-> loopBody, funcBodies |-> funcBodies]

pushDiag(M, line, severity, message) == Push(M, Diag(line, severity, message))

\* current.out.push(cppLine): current.out is the buffer of the open structure.
emit(M, lineNo, cppLine) ==
  IF current = Null
  THEN pushDiag(M, lineNo, "error", <<"Commands must be inside setup:, loop:, or function blocks.">>)
  ELSE IF current.type = "setup" THEN [M EXCEPT !.setupBody = Append(@, cppLine)]
  ELSE IF current.type = "loop" THEN [M EXCEPT !.loopBody = Append(@, cppLine)]
  ELSE [M EXCEPT !.funcBodies =
          Put(@, [name |-> current.name, body |-> Append(Get(@, current.name).body, cppLine)])]

\* An end of a control block that emits no brace.
closeNothing(M, lineNo) == M

closeBlock(M, lineNo) == emit(M, lineNo, <<"}">>)

\* The test of ensureStructureAllowed turned around.
structureRefused == current = Null

\* A control opener is taken wherever it stands.
structureAlways == TRUE

structureAllowed == current # Null

\* ensureStructureAllowed without its diagnostic.
ensureStructureSilently(M, lineNo) == M

ensureStructureAllowed(M, lineNo) ==
  IF ~structureAllowed
  THEN pushDiag(M, lineNo, "error", <<"Start with setup: and loop: blocks.">>)
  ELSE M

Frame(type, name) == [type |-> type, hasElse |-> FALSE, name |-> name]

StructureTypes == {"setup", "loop", "func"}
ControlTypes == {"if", "repeat", "forever", "while", "every", "after"}

-----------------------------------------------------------------------------
(* Shapes of the block pass.                                               *)

\* /^pin\s+/i.test(code) || /^set\s+[A-Za-z_]\w*\s+to\s+pin\s+/i.test(code)
matchPinDeclaration(code) ==
  \/ Len(code) >= 2 /\ toLowerCase(code[1]) = "pin"
  \/ matchSetToPin(code)

\* /^if\s+(.+)\s+do:\s*$/i and /^while\s+(.+)\s+do:\s*$/i
matchCondBlock(code, word) ==
  /\ Len(code) >= 3
  /\ toLowerCase(code[1]) = word
  /\ toLowerCase(code[Len(code)]) = "do:"

matchOtherwise(code) ==
  \/ Lower(code) = <<"otherwise", "do:">>
  \/ IsWord(code, "otherwise:")

\* /^repeat\s+(-?\d+)\s+times\s+do:\s*$/i
matchRepeat(code) ==
  /\ Len(code) = 4
  /\ toLowerCase(code[1]) = "repeat"
  /\ isIntLiteral(code[2])
  /\ toLowerCase(code[3]) = "times"
  /\ toLowerCase(code[4]) = "do:"

matchForever(code) == Lower(code) = <<"forever", "do:">>

\* \d+ : an integer literal without sign
isDigits(s) == isIntLiteral(s) /\ IntLiteralValue[s] >= 0

TimerUnits == {"ms", "millisecond", "milliseconds", "second", "seconds", "s"}
SecondUnits == {"second", "seconds", "s"}

\* /^every\s+(\d+)\s*(ms|...|s)\s+do:\s*$/i and the same with after
matchTimer(code, word) ==
  /\ Len(code) = 4
  /\ toLowerCase(code[1]) = word
  /\ isDigits(code[2])
  /\ toLowerCase(code[3]) \in TimerUnits
  /\ toLowerCase(code[4]) = "do:"

\* The order of the tests in the loop body of the walk (lines 936-1106).
WalkKind(code) ==
  IF code = <<>> THEN "blank"
  ELSE IF IsWord(code, "setup:") THEN "setup"
  ELSE IF IsWord(code, "loop:") THEN "loop"
  ELSE IF matchFunction(code) THEN "function"
  ELSE IF matchPinDeclaration(code) THEN "pin"
  ELSE IF matchCondBlock(code, "if") THEN "if"
  ELSE IF matchOtherwise(code) THEN "otherwise"
  ELSE IF matchRepeat(code) THEN "repeat"
  ELSE IF matchForever(code) THEN "forever"
  ELSE IF matchCondBlock(code, "while") THEN "while"
  ELSE IF matchTimer(code, "every") THEN "every"
  ELSE IF matchTimer(code, "after") THEN "after"
  ELSE IF IsWord(code, "end") THEN "end"
  ELSE "statement"

-----------------------------------------------------------------------------
(* COMMANDS table.  A handler returns [handled, M]: handled is its boolean *)
(* result, M the environment it leaves.  tokenize(code) is code itself.    *)

NotMine(M) == [handled |-> FALSE, M |-> M]
Done(M) == [handled |-> TRUE, M |-> M]

\* The text between the quotes of a string-literal token.
StringBody(t) == IF t = "\"s\"" THEN "s" ELSE ""
\* No text of the model holds a backslash or a quote.
escapeCppString(t) == t

cmd_make(M, code, lineNo) ==
  IF code = <<>> \/ toLowerCase(code[1]) # "make" THEN NotMine(M)
  ELSE IF ~structureAllowed THEN Done(ensureStructureAllowed(M, lineNo))
  ELSE LET pinRes == resolvePinRef(M, Slice(code, 2), lineNo) IN
       IF ~pinRes.res.ok THEN Done(pinRes.E)
       ELSE LET rest == Lower(Slice(code, 2 + pinRes.res.consumed))
                mode == IF rest = <<"output">> THEN "OUTPUT"
                        ELSE IF rest = <<"input">> THEN "INPUT"
                        ELSE IF rest \in {<<"input", "pullup">>, <<"input_pullup">>,
                                          <<"input", "with", "pullup">>}
                        THEN "INPUT_PULLUP"
                        ELSE ""
            IN IF mode = ""
               THEN Done(pushDiag(pinRes.E, lineNo, "error",
                           <<"make needs a mode: output, input, or input pullup.">>))
               ELSE Done(emit(pinRes.E, lineNo, <<"pinMode(", pinRes.res.cpp, ", ", mode, ");">>))

cmd_turn(M, code, lineNo) ==
  IF code = <<>> \/ toLowerCase(code[1]) # "turn" THEN NotMine(M)
  ELSE IF ~structureAllowed THEN Done(ensureStructureAllowed(M, lineNo))
  ELSE LET pinRes == resolvePinRef(M, Slice(code, 2), lineNo) IN
       IF ~pinRes.res.ok THEN Done(pinRes.E)
       ELSE LET rest == Slice(code, 2 + pinRes.res.consumed) IN
            IF rest = <<>>
            THEN Done(pushDiag(pinRes.E, lineNo, "error", <<"turn needs \"on\" or \"off\".">>))
            ELSE IF Lower(rest) # <<"on">> /\ Lower(rest) # <<"off">>
            THEN Done(pushDiag(pinRes.E, lineNo, "error", <<"turn needs \"on\" or \"off\".">>))
            ELSE Done(emit(pinRes.E, lineNo,
                        <<"digitalWrite(", pinRes.res.cpp, ", ",
                          IF Lower(rest) = <<"on">> THEN "HIGH" ELSE "LOW", ");">>))

\* cmd_toggle answering "not mine" when its pin operand is rejected.
cmd_toggleOrPass(M, code, lineNo) ==
  IF code = <<>> \/ toLowerCase(code[1]) # "toggle" THEN NotMine(M)
  ELSE IF ~structureAllowed THEN Done(ensureStructureAllowed(M, lineNo))
  ELSE LET pinRes == resolvePinRef(M, Slice(code, 2), lineNo) IN
       IF ~pinRes.res.ok THEN NotMine(pinRes.E)
       ELSE Done(emit(pinRes.E, lineNo,
                   <<"digitalWrite(", pinRes.res.cpp, ", !digitalRead(", pinRes.res.cpp, "));">>))

cmd_toggle(M, code, lineNo) ==
  IF code = <<>> \/ toLowerCase(code[1]) # "toggle" THEN NotMine(M)
  ELSE IF ~structureAllowed THEN Done(ensureStructureAllowed(M, lineNo))
  ELSE LET pinRes == resolvePinRef(M, Slice(code, 2), lineNo) IN
       IF ~pinRes.res.ok THEN Done(pinRes.E)
       ELSE Done(emit(pinRes.E, lineNo,
                   <<"digitalWrite(", pinRes.res.cpp, ", !digitalRead(", pinRes.res.cpp, "));">>))

\* /^set\s+(.+?)\s+to\s+pwm\s+(.+)\s*$/i: the first "to pwm" with text on both sides.
PwmAt(code) ==
  {k \in 3..(Len(code) - 2) : toLowerCase(code[k]) = "to" /\ toLowerCase(code[k + 1]) = "pwm"}
Min(S) == CHOOSE x \in S : \A y \in S : x <= y

\* The list COMMANDS without the pulse-width recognizer.
cmd_pwmAbsent(M, code, lineNo) == NotMine(M)

cmd_pwm(M, code, lineNo) ==
  IF ~(Len(code) >= 5 /\ toLowerCase(code[1]) = "set" /\ PwmAt(code) # {}) THEN NotMine(M)
  ELSE IF ~structureAllowed THEN Done(ensureStructureAllowed(M, lineNo))
  ELSE LET k == Min(PwmAt(code))
           pinToks == SubSeq(code, 2, k - 1)
           valExpr == Slice(code, k + 2)
           pinRes == resolvePinRef(M, pinToks, lineNo)
       IN IF ~pinRes.res.ok THEN Done(pinRes.E)
          ELSE LET expr == parseExpr(pinRes.E, valExpr, lineNo) IN
               IF ~expr.ok THEN Done(expr.E)
               ELSE Done(emit(expr.E, lineNo,
                           <<"analogWrite(", pinRes.res.cpp, ", ">> \o expr.t \o <<");">>))

cmd_read_digital(M, code, lineNo) ==
  IF ~matchReadInto(code) THEN NotMine(M)
  ELSE LET m1 == SubSeq(code, 2, Len(code) - 2)
           v == code[Len(code)]
       IN IF toLowerCase(m1[1]) = "analog" THEN NotMine(M)
          ELSE IF Lower(m1) = <<"time">> \/ Lower(m1) = <<"micros">> THEN NotMine(M)
          ELSE IF ~structureAllowed THEN Done(ensureStructureAllowed(M, lineNo))
          ELSE LET M1 == ensureVar(M, v, "int", lineNo)
                   pinRes == resolvePinRef(M1, m1, lineNo)
               IN IF ~pinRes.res.ok THEN Done(pinRes.E)
                  ELSE Done(emit(pinRes.E, lineNo, <<v, " = digitalRead(", pinRes.res.cpp, ");">>))

\* /^read\s+analog\s+(.+?)\s+into\s+([A-Za-z_]\w*)\s*$/i
cmd_read_analog(M, code, lineNo) ==
  IF ~(matchReadInto(code) /\ Len(code) >= 5 /\ toLowerCase(code[2]) = "analog") THEN NotMine(M)
  ELSE IF ~structureAllowed THEN Done(ensureStructureAllowed(M, lineNo))
  ELSE LET pinToks == SubSeq(code, 3, Len(code) - 2)
           v == code[Len(code)]
           M1 == ensureVar(M, v, "int", lineNo)
           pinRes == resolvePinRef(M1, pinToks, lineNo)
       IN IF ~pinRes.res.ok THEN Done(pinRes.E)
          ELSE IF pinRes.res.kind = "digital"
          THEN Done(pushDiag(pinRes.E, lineNo, "error",
                      <<"read analog expects A0..A5 (or a pin name set to A0..A5).">>))
          ELSE Done(emit(pinRes.E, lineNo, <<v, " = analogRead(", pinRes.res.cpp, ");">>))

cmd_read_time(M, code, lineNo) ==
  IF ~matchReadClock(code, "time") THEN NotMine(M)
  ELSE IF ~structureAllowed THEN Done(ensureStructureAllowed(M, lineNo))
  ELSE Done(emit(ensureVar(M, code[4], "unsigned long", lineNo), lineNo, <<code[4], " = millis();">>))

cmd_read_micros(M, code, lineNo) ==
  IF ~matchReadClock(code, "micros") THEN NotMine(M)
  ELSE IF ~structureAllowed THEN Done(ensureStructureAllowed(M, lineNo))
  ELSE Done(emit(ensureVar(M, code[4], "unsigned long", lineNo), lineNo, <<code[4], " = micros();">>))

\* A wait that no handler takes.
cmd_waitSkipped(M, code, lineNo) == NotMine(M)

WaitUnits == TimerUnits \cup {"us", "microsecond", "microseconds"}

\* /^wait\s+(\d+)\s*(ms|...|s)\s*$/i
cmd_wait(M, code, lineNo) ==
  IF ~(Len(code) = 3 /\ toLowerCase(code[1]) = "wait" /\ isDigits(code[2])
       /\ toLowerCase(code[3]) \in WaitUnits)
  THEN NotMine(M)
  ELSE IF ~structureAllowed THEN Done(ensureStructureAllowed(M, lineNo))
  ELSE LET n == IntLiteralValue[code[2]]
           unit == toLowerCase(code[3])
       IN IF unit \in {"us", "microsecond", "microseconds"}
          THEN Done(emit(M, lineNo, <<"delayMicroseconds(">> \o Decimal(n) \o <<");">>))
          ELSE Done(emit(M, lineNo, <<"delay(">> \o Decimal(IF unit \in SecondUnits THEN n * 1000 ELSE n) \o <<");">>))

\* /^start\s+serial\s+at\s+(\d+)\s*$/i
cmd_serial(M, code, lineNo) ==
  IF ~(Len(code) = 4 /\ Lower(SubSeq(code, 1, 3)) = <<"start", "serial", "at">> /\ isDigits(code[4]))
  THEN NotMine(M)
  ELSE IF ~structureAllowed THEN Done(ensureStructureAllowed(M, lineNo))
  ELSE Done(emit(M, lineNo, <<"Serial.begin(">> \o Decimal(IntLiteralValue[code[4]]) \o <<");">>))

cmd_print(M, code, lineNo) ==
  IF ~(Len(code) >= 2 /\ toLowerCase(code[1]) = "print") THEN NotMine(M)
  ELSE IF Len(code) = 2 /\ code[2] \in StringLiterals
  THEN IF ~structureAllowed THEN Done(ensureStructureAllowed(M, lineNo))
       ELSE Done(emit(M, lineNo, <<"Serial.println(\"", escapeCppString(StringBody(code[2])), "\");">>))
  ELSE IF Len(code) >= 4 /\ code[2] \in StringLiterals /\ toLowerCase(code[3]) = "and"
  THEN IF ~structureAllowed THEN Done(ensureStructureAllowed(M, lineNo))
       ELSE LET expr == parseExpr(M, Slice(code, 4), lineNo) IN
            IF ~expr.ok THEN Done(expr.E)
            ELSE Done(emit(emit(expr.E, lineNo,
                             <<"Serial.print(\"", escapeCppString(StringBody(code[2])), "\");">>),
                           lineNo, <<"Serial.println(">> \o expr.t \o <<");">>))
  ELSE IF ~structureAllowed THEN Done(ensureStructureAllowed(M, lineNo))
       ELSE LET expr == parseExpr(M, Slice(code, 2), lineNo) IN
            IF ~expr.ok THEN Done(expr.E)
            ELSE Done(emit(expr.E, lineNo, <<"Serial.println(">> \o expr.t \o <<");">>))

cmd_set(M, code, lineNo) ==
  IF matchSetToPin(code) THEN NotMine(M)
  ELSE IF ~matchSetTo(code) THEN NotMine(M)
  ELSE IF ~structureAllowed THEN Done(ensureStructureAllowed(M, lineNo))
  ELSE LET v == code[2]
           exprRaw == Slice(code, 4)
           typeHint == inferTypeFromExpr(exprRaw)
           M1 == ensureVar(M, v, typeHint, lineNo)
       IN IF Len(exprRaw) = 1 /\ exprRaw[1] \in StringLiterals
          THEN Done(emit(M1, lineNo, <<v, " = \"", escapeCppString(StringBody(exprRaw[1])), "\";">>))
          ELSE LET expr == parseExpr(M1, exprRaw, lineNo) IN
               IF ~expr.ok THEN Done(expr.E)
               ELSE Done(emit(expr.E, lineNo, <<v, " = ">> \o expr.t \o <<";">>))

\* /^change\s+([A-Za-z_]\w*)\s+by\s+(.+)\s*$/i
cmd_change(M, code, lineNo) ==
  IF ~(Len(code) >= 4 /\ toLowerCase(code[1]) = "change" /\ isIdentifier(code[2])
       /\ toLowerCase(code[3]) = "by")
  THEN NotMine(M)
  ELSE IF ~structureAllowed THEN Done(ensureStructureAllowed(M, lineNo))
  ELSE LET v == code[2]
           expr == parseExpr(M, Slice(code, 4), lineNo)
       IN IF ~expr.ok THEN Done(expr.E)
          ELSE Done(emit(ensureVar(expr.E, v, "long", lineNo), lineNo,
                      <<v, " += (">> \o expr.t \o <<");">>))

\* cmd_call refusing a function that is not in the table.
cmd_callStrict(M, code, lineNo) ==
  IF ~(Len(code) = 2 /\ toLowerCase(code[1]) = "call" /\ isIdentifier(code[2])) THEN NotMine(M)
  ELSE IF ~structureAllowed THEN Done(ensureStructureAllowed(M, lineNo))
  ELSE LET fn == code[2] IN
       IF ~Has(M.symbols.funcs, fn)
       THEN Done(pushDiag(M, lineNo, "error",
                   <<"Function \"", fn, "\" isn't defined (yet). Did you mean to write \"function ",
                     fn, ":\"?">>))
       ELSE Done(emit(M, lineNo, <<fn, "();">>))

\* /^call\s+([A-Za-z_]\w*)\s*$/i
cmd_call(M, code, lineNo) ==
  IF ~(Len(code) = 2 /\ toLowerCase(code[1]) = "call" /\ isIdentifier(code[2])) THEN NotMine(M)
  ELSE IF ~structureAllowed THEN Done(ensureStructureAllowed(M, lineNo))
  ELSE LET fn == code[2]
           M1 == IF ~Has(M.symbols.funcs, fn)
                 THEN pushDiag(M, lineNo, "warning",
                        <<"Function \"", fn, "\" isn't defined (yet). Did you mean to write \"function ",
                          fn, ":\"?">>)
                 ELSE M
       IN Done(emit(M1, lineNo, <<fn, "();">>))

\* for (const h of COMMANDS) if (h(code, lineNo)) { handled = true; break; }
\* The handlers map, limit, random, seed, tone and noTone own lines that start
\* with map, limit, pick, seed random, random seed, play and stop: no source of
\* the model holds such a line.
dispatch(M, code, lineNo) ==
  LET h1 == cmd_make(M, code, lineNo)
      h2 == cmd_turn(M, code, lineNo)
      h3 == cmd_toggle(M, code, lineNo)
      h4 == cmd_pwm(M, code, lineNo)
      h5 == cmd_read_digital(M, code, lineNo)
      h6 == cmd_read_analog(M, code, lineNo)
      h7 == cmd_read_time(M, code, lineNo)
      h8 == cmd_read_micros(M, code, lineNo)
      h9 == cmd_wait(M, code, lineNo)
      h10 == cmd_serial(M, code, lineNo)
      h11 == cmd_print(M, code, lineNo)
      h12 == cmd_set(M, code, lineNo)
      h13 == cmd_change(M, code, lineNo)
      h14 == cmd_call(M, code, lineNo)
  IN IF h1.handled THEN h1
     ELSE IF h2.handled THEN h2
     ELSE IF h3.handled THEN h3
     ELSE IF h4.handled THEN h4
     ELSE IF h5.handled THEN h5
     ELSE IF h6.handled THEN h6
     ELSE IF h7.handled THEN h7
     ELSE IF h8.handled THEN h8
     ELSE IF h9.handled THEN h9
     ELSE IF h10.handled THEN h10
     ELSE IF h11.handled THEN h11
     ELSE IF h12.handled THEN h12
     ELSE IF h13.handled THEN h13
     ELSE IF h14.handled THEN h14
     ELSE NotMine(M)

-----------------------------------------------------------------------------
(* AES.transpile: the walk over the lines, one action for each branch of   *)
(* the loop body.                                                          *)

WalkAt(kind) ==
  /\ pc = "walk"
  /\ i < Len(src)
  /\ WalkKind(src[i + 1]) = kind

\* The line under the walk and its number.
codeLine == src[i + 1]
lineNumber == i + 1

\* Stores what a branch left in M and moves to the next line (continue).
Commit(M) ==
  /\ symbols' = M.symbols
  /\ diagnostics' = M.diagnostics
  /\ setupBody' = M.setupBody
  /\ loopBody' = M.loopBody
  /\ funcBodies' = M.funcBodies
  /\ i' = i + 1
  /\ UNCHANGED <<src, pc, inStructure>>
  /\ UNCHANGED <<formatVars, boardVars, editorVars, sketch>>

\* if (!codeLine) continue;
WalkBlank ==
  /\ WalkAt("blank")
  /\ Commit(Machine)
  /\ UNCHANGED <<current, stack, sawSetup, sawLoop, internalId>>

SetupOpener ==
  /\ WalkAt("setup")
  /\ IF current # Null
     THEN /\ Commit(pushDiag(Machine, lineNumber, "error", <<"setup: can't be inside another block.">>))
          /\ UNCHANGED <<current, stack, sawSetup, sawLoop, internalId>>
     ELSE /\ Commit(Machine)
          /\ sawSetup' = TRUE
          /\ current' = [type |-> "setup", name |-> ""]
          /\ stack' = Append(stack, Frame("setup", ""))
          /\ UNCHANGED <<sawLoop, internalId>>

\* The loop opener without the test for an open block.
LoopOpenerAnywhere ==
  /\ WalkAt("loop")
  /\ Commit(Machine)
  /\ sawLoop' = TRUE
  /\ current' = [type |-> "loop", name |-> ""]
  /\ stack' = Append(stack, Frame("loop", ""))
  /\ UNCHANGED <<sawSetup, internalId>>

LoopOpener ==
  /\ WalkAt("loop")
  /\ IF current # Null
     THEN /\ Commit(pushDiag(Machine, lineNumber, "error", <<"loop: can't be inside another block.">>))
          /\ UNCHANGED <<current, stack, sawSetup, sawLoop, internalId>>
     ELSE /\ Commit(Machine)
          /\ sawLoop' = TRUE
          /\ current' = [type |-> "loop", name |-> ""]
          /\ stack' = Append(stack, Frame("loop", ""))
          /\ UNCHANGED <<sawSetup, internalId>>

FunctionOpener ==
  /\ WalkAt("function")
  /\ IF current # Null
     THEN /\ Commit(pushDiag(Machine, lineNumber, "error",
                      <<"Functions must be top-level (not inside setup/loop).">>))
          /\ UNCHANGED <<current, stack, sawSetup, sawLoop, internalId>>
     ELSE LET name == codeLine[2]
              M1 == IF ~Has(symbols.funcs, name) THEN defineFunction(Machine, name, lineNumber)
                    ELSE Machine
              M2 == [M1 EXCEPT !.funcBodies = Put(@, [name |-> name, body |-> <<>>])]
          IN /\ Commit(M2)
             /\ current' = [type |-> "func", name |-> name]
             /\ stack' = Append(stack, Frame("func", name))
             /\ UNCHANGED <<sawSetup, sawLoop, internalId>>

PinDeclaration ==
  /\ WalkAt("pin")
  /\ IF current # Null
     THEN Commit(pushDiag(Machine, lineNumber, "error",
                   <<"Pin declarations must be outside setup:/loop:/function blocks.">>))
     ELSE Commit(Machine)
  /\ UNCHANGED <<current, stack, sawSetup, sawLoop, internalId>>

\* The branches for "if" and "while" differ in the words only.
CondOpener(word) ==
  /\ WalkAt(word)
  /\ IF ~structureAllowed
     THEN /\ Commit(ensureStructureAllowed(Machine, lineNumber))
          /\ UNCHANGED stack
     ELSE LET cond == parseCondition(Machine, SubSeq(codeLine, 2, Len(codeLine) - 1), lineNumber) IN
          IF ~cond.ok
          THEN /\ Commit(cond.E)
               /\ UNCHANGED stack
          ELSE /\ Commit(emit(cond.E, lineNumber, <<word, " (">> \o cond.t \o <<") ", "{">>))
               /\ stack' = Append(stack, Frame(word, ""))
  /\ UNCHANGED <<current, sawSetup, sawLoop, internalId>>

IfOpener == CondOpener("if")

WhileOpener == CondOpener("while")

\* The alternate branch without the test of the hasElse flag.
OtherwiseAgain ==
  /\ WalkAt("otherwise")
  /\ IF ~structureAllowed
     THEN /\ Commit(ensureStructureAllowed(Machine, lineNumber))
          /\ UNCHANGED stack
     ELSE IF stack = <<>> \/ stack[Len(stack)].type # "if"
     THEN /\ Commit(pushDiag(Machine, lineNumber, "error", <<"otherwise do: must be inside an if block.">>))
          /\ UNCHANGED stack
     ELSE /\ Commit(emit(Machine, lineNumber, <<"}", " else ", "{">>))
          /\ stack' = [stack EXCEPT ![Len(stack)].hasElse = TRUE]
  /\ UNCHANGED <<current, sawSetup, sawLoop, internalId>>

Otherwise ==
  /\ WalkAt("otherwise")
  /\ IF ~structureAllowed
     THEN /\ Commit(ensureStructureAllowed(Machine, lineNumber))
          /\ UNCHANGED stack
     ELSE IF stack = <<>> \/ stack[Len(stack)].type # "if"
     THEN /\ Commit(pushDiag(Machine, lineNumber, "error", <<"otherwise do: must be inside an if block.">>))
          /\ UNCHANGED stack
     ELSE IF stack[Len(stack)].hasElse
     THEN /\ Commit(pushDiag(Machine, lineNumber, "error", <<"This if already has an otherwise block.">>))
          /\ UNCHANGED stack
     ELSE /\ Commit(emit(Machine, lineNumber, <<"}", " else ", "{">>))
          /\ stack' = [stack EXCEPT ![Len(stack)].hasElse = TRUE]
  /\ UNCHANGED <<current, sawSetup, sawLoop, internalId>>

RepeatOpener ==
  /\ WalkAt("repeat")
  /\ IF ~structureAllowed
     THEN /\ Commit(ensureStructureAllowed(Machine, lineNumber))
          /\ UNCHANGED <<stack, internalId>>
     ELSE LET n == IntLiteralValue[codeLine[2]] IN
          IF n < 0
          THEN /\ Commit(pushDiag(Machine, lineNumber, "error",
                           <<"repeat count must be a non-negative number.">>))
               /\ UNCHANGED <<stack, internalId>>
          ELSE LET idx == <<"__i">> \o Decimal(internalId + 1) IN
               /\ internalId' = internalId + 1
               /\ Commit(emit(Machine, lineNumber,
                           <<"for (int ">> \o idx \o <<" = 0; ">> \o idx \o <<" < ">> \o Decimal(n)
                             \o <<"; ">> \o idx \o <<"++) ", "{">>))
               /\ stack' = Append(stack, Frame("repeat", ""))
  /\ UNCHANGED <<current, sawSetup, sawLoop>>

ForeverOpener ==
  /\ WalkAt("forever")
  /\ IF ~structureAllowed
     THEN /\ Commit(ensureStructureAllowed(Machine, lineNumber))
          /\ UNCHANGED stack
     ELSE /\ Commit(emit(Machine, lineNumber, <<"while (true) ", "{">>))
          /\ stack' = Append(stack, Frame("forever", ""))
  /\ UNCHANGED <<current, sawSetup, sawLoop, internalId>>

\* const interval = (unit is second, seconds or s) ? n * 1000 : n
\* The number of the opener taken as milliseconds whatever its unit.
timerCount(line) == IntLiteralValue[line[2]]

timerMillis(line) ==
  IF toLowerCase(line[3]) \in SecondUnits
  THEN IntLiteralValue[line[2]] * 1000
  ELSE IntLiteralValue[line[2]]

EveryOpener ==
  /\ WalkAt("every")
  /\ IF ~structureAllowed
     THEN /\ Commit(ensureStructureAllowed(Machine, lineNumber))
          /\ UNCHANGED <<stack, internalId>>
     ELSE LET interval == Decimal(timerMillis(codeLine))
              last == <<"__every_">> \o Decimal(internalId + 1) \o <<"_last">>
              M1 == emit(Machine, lineNumber, <<"static unsigned long ">> \o last \o <<" = 0;">>)
              M2 == emit(M1, lineNumber,
                      <<"if (millis() - ">> \o last \o <<" >= ">> \o interval \o <<"UL) ", "{">>)
              M3 == emit(M2, lineNumber, last \o <<" += ">> \o interval \o <<"UL;">>)
          IN /\ internalId' = internalId + 1
             /\ Commit(M3)
             /\ stack' = Append(stack, Frame("every", ""))
  /\ UNCHANGED <<current, sawSetup, sawLoop>>

\* The delayed block without the assignment that sets its latch.
AfterOpenerUnlatched ==
  /\ WalkAt("after")
  /\ structureAllowed
  /\ LET delayMs == Decimal(timerMillis(codeLine))
         done == <<"__after_">> \o Decimal(internalId + 1) \o <<"_done">>
         start == <<"__after_">> \o Decimal(internalId + 1) \o <<"_start">>
         M1 == emit(Machine, lineNumber, <<"static bool ">> \o done \o <<" = false;">>)
         M2 == emit(M1, lineNumber, <<"static unsigned long ">> \o start \o <<" = millis();">>)
         M3 == emit(M2, lineNumber,
                 <<"if (!">> \o done \o <<" && millis() - ">> \o start \o <<" >= ">>
                   \o delayMs \o <<"UL) ", "{">>)
     IN /\ internalId' = internalId + 1
        /\ Commit(M3)
        /\ stack' = Append(stack, Frame("after", ""))
  /\ UNCHANGED <<current, sawSetup, sawLoop>>

AfterOpener ==
  /\ WalkAt("after")
  /\ IF ~structureAllowed
     THEN /\ Commit(ensureStructureAllowed(Machine, lineNumber))
          /\ UNCHANGED <<stack, internalId>>
     ELSE LET delayMs == Decimal(timerMillis(codeLine))
              done == <<"__after_">> \o Decimal(internalId + 1) \o <<"_done">>
              start == <<"__after_">> \o Decimal(internalId + 1) \o <<"_start">>
              M1 == emit(Machine, lineNumber, <<"static bool ">> \o done \o <<" = false;">>)
              M2 == emit(M1, lineNumber, <<"static unsigned long ">> \o start \o <<" = millis();">>)
              M3 == emit(M2, lineNumber,
                      <<"if (!">> \o done \o <<" && millis() - ">> \o start \o <<" >= ">>
                        \o delayMs \o <<"UL) ", "{">>)
              M4 == emit(M3, lineNumber, done \o <<" = true;">>)
          IN /\ internalId' = internalId + 1
             /\ Commit(M4)
             /\ stack' = Append(stack, Frame("after", ""))
  /\ UNCHANGED <<current, sawSetup, sawLoop>>

\* The terminator that takes the top frame without the test for an empty stack.
EndOfOpenBlock ==
  /\ WalkAt("end")
  /\ stack # <<>>
  /\ stack' = SubSeq(stack, 1, Len(stack) - 1)
  /\ IF stack[Len(stack)].type \in ControlTypes
     THEN /\ Commit(closeBlock(Machine, lineNumber))
          /\ UNCHANGED current
     ELSE /\ Commit(Machine)
          /\ current' = Null
  /\ UNCHANGED <<sawSetup, sawLoop, internalId>>

End ==
  /\ WalkAt("end")
  /\ IF stack = <<>>
     THEN /\ Commit(pushDiag(Machine, lineNumber, "error", <<"Found \"end\" but there is no open block.">>))
          /\ UNCHANGED <<stack, current>>
     ELSE LET top == stack[Len(stack)] IN
          /\ stack' = SubSeq(stack, 1, Len(stack) - 1)
          /\ IF top.type \in ControlTypes
             THEN /\ Commit(closeBlock(Machine, lineNumber))
                  /\ UNCHANGED current
             ELSE IF top.type \in StructureTypes
             THEN /\ Commit(Machine)
                  /\ current' = Null
             ELSE /\ Commit(pushDiag(Machine, lineNumber, "error",
                              <<"Unknown block type \"", top.type, "\".">>))
                  /\ UNCHANGED current
  /\ UNCHANGED <<sawSetup, sawLoop, internalId>>

\* if (!current) { pushDiag(...); continue; }
NoStructure ==
  /\ WalkAt("statement")
  /\ current = Null
  /\ Commit(pushDiag(Machine, lineNumber, "error",
              <<"Commands must be inside setup:, loop:, or function blocks.">>))
  /\ UNCHANGED <<current, stack, sawSetup, sawLoop, internalId>>

Commands ==
  /\ WalkAt("statement")
  /\ current # Null
  /\ LET h == dispatch(Machine, codeLine, lineNumber) IN
     IF h.handled THEN Commit(h.M)
     ELSE Commit(pushDiag(Machine, lineNumber, "error", <<"Unknown command: \"">> \o codeLine \o <<"\"">>))
  /\ UNCHANGED <<current, stack, sawSetup, sawLoop, internalId>>

\* One "unclosed block" error for each frame left on the stack.
RECURSIVE unclosedFrames(_, _)
unclosedFrames(M, k) ==
  IF k = 0 THEN M
  ELSE unclosedFrames(pushDiag(M, Len(src), "error",
                        <<"Unclosed block \"", stack[k].type, "\". Add an \"end\".">>), k - 1)

unclosedBlocksEachFrame(M) == unclosedFrames(M, Len(stack))

\* The "unclosed block" error naming the bottom frame of the stack.
unclosedBlocksOutermost(M) ==
  IF stack # <<>>
  THEN pushDiag(M, Len(src), "error",
         <<"Unclosed block \"", stack[1].type, "\". Add an \"end\".">>)
  ELSE M

\* After the walk: unclosed blocks, missing setup, missing loop (lines 1118-1125).
unclosedBlocks(M) ==
  IF stack # <<>>
  THEN pushDiag(M, Len(src), "error",
         <<"Unclosed block \"", stack[Len(stack)].type, "\". Add an \"end\".">>)
  ELSE M

\* The missing-setup check made only when nothing was reported before.
missingSetupIfClean(M) ==
  IF ~sawSetup /\ M.diagnostics = <<>>
  THEN pushDiag(M, 1, "error", <<"Missing \"setup:\" block.">>)
  ELSE M

missingSetup(M) ==
  IF ~sawSetup THEN pushDiag(M, 1, "error", <<"Missing \"setup:\" block.">>) ELSE M

\* The missing-loop check made only when a setup block was seen.
missingLoopAfterSetup(M) ==
  IF ~sawLoop /\ sawSetup
  THEN pushDiag(M, 1, "error", <<"Missing \"loop:\" block.">>)
  ELSE M

missingLoop(M) ==
  IF ~sawLoop THEN pushDiag(M, 1, "error", <<"Missing \"loop:\" block.">>) ELSE M

\* t.startsWith("}") and t.endsWith("{") on an emitted line.
startsWithClose(t) == t # <<>> /\ t[1] = "}"
endsWithOpen(t) == t # <<>> /\ t[Len(t)] = "{"

\* "  ".repeat(ind)
RECURSIVE Spaces(_)
Spaces(ind) == IF ind = 0 THEN <<>> ELSE <<"  ">> \o Spaces(ind - 1)

\* indentCpp(lines, baseIndent), as the lines it joins.
RECURSIVE indentCpp(_, _)
indentCpp(lines, ind) ==
  IF lines = <<>> THEN <<>>
  ELSE LET t == Head(lines)
           at == IF startsWithClose(t) /\ ind > 0 THEN ind - 1 ELSE ind
       IN <<Spaces(at) \o t>> \o indentCpp(Tail(lines), IF endsWithOpen(t) THEN at + 1 ELSE at)

\* bodyText between the braces of setup() and loop(): "" is one empty line.
BodyLines(body) == IF body = <<>> THEN << <<>> >> ELSE indentCpp(body, 1)

AESVersion == "2.0.0"

header ==
  << <<"// Generated by Arduino EasyScript (AES) v", AESVersion>>,
     <<"// This file uses ONLY Arduino core functions (no external libraries).">>,
     <<>> >>

\* Every variable starts as the integer 0.
initOfInteger(t) == "0"

\* The zero value of a variable of type t.
initOf(t) ==
  IF t = "bool" THEN "false"
  ELSE IF t = "String" THEN "\"\""
  ELSE IF t = "float" THEN "0.0"
  ELSE IF t = "unsigned long" THEN "0UL"
  ELSE "0"

pinDecls(pins) ==
  [k \in 1..Len(pins) |-> <<"const int ", pins[k].name, " = ", pins[k].cpp, ";">>]

varDecls(vs) ==
  [k \in 1..Len(vs) |-> <<vs[k].type, " ", vs[k].name, " = ", initOf(vs[k].type), ";">>]

prototypes(bodies) ==
  [k \in 1..Len(bodies) |-> <<"void ", bodies[k].name, "();">>]

\* fnText.join("\n"): the functions, an empty line between two of them.
RECURSIVE fnText(_)
fnText(bodies) ==
  IF bodies = <<>> THEN <<>>
  ELSE << <<"void ", Head(bodies).name, "() ", "{">> >>
         \o indentCpp(Head(bodies).body, 1)
         \o << <<"}">> >>
         \o (IF Len(bodies) > 1 THEN << <<>> >> ELSE <<>>)
         \o fnText(Tail(bodies))

\* A section and the empty line after it, or nothing for an empty section.
Section(lines) == IF lines = <<>> THEN <<>> ELSE lines \o << <<>> >>

\* const cpp = header + ...: the lines of the text, without the last newline.
assemble(M) ==
  header
    \o Section(prototypes(M.funcBodies))
    \o Section(pinDecls(M.symbols.pins))
    \o Section(varDecls(M.symbols.vars))
    \o fnText(M.funcBodies)
    \o << <<"void setup() ", "{">> >> \o BodyLines(M.setupBody) \o << <<"}">>, <<>> >>
    \o << <<"void loop() ", "{">> >> \o BodyLines(M.loopBody) \o << <<"}">> >>

Finish ==
  /\ pc = "walk"
  /\ i = Len(src)
  /\ LET M == missingLoop(missingSetup(unclosedBlocks(Machine))) IN
     /\ symbols' = M.symbols
     /\ diagnostics' = M.diagnostics
     /\ setupBody' = M.setupBody
     /\ loopBody' = M.loopBody
     /\ funcBodies' = M.funcBodies
     /\ sketch' = assemble(M)
  /\ pc' = "done"
  /\ UNCHANGED <<src, i, inStructure, current, stack, sawSetup, sawLoop, internalId>>
  /\ UNCHANGED <<formatVars, boardVars, editorVars>>

-----------------------------------------------------------------------------
(* The board.  loop() of the generated code is run again and again; its    *)
(* static variables keep their values from one pass to the next.  millis() *)
(* and every unsigned long have WordBits bits (32 on the UNO), and their   *)
(* arithmetic is modulo 2^WordBits.  A bool is 0 or 1.                     *)

WordBits == 4
Modulus == 2^WordBits

\* The longest pass through loop(), in milliseconds.
MaxStep == 4

\* The number of entries into timer blocks that are followed.
MaxTriggers == 6

DigitValue(ch) == CHOOSE d \in 0..9 : DigitChar[d + 1] = ch

\* The value of the decimal literal written with the digits ds.
RECURSIVE LiteralValue(_)
LiteralValue(ds) ==
  IF ds = <<>> THEN 0
  ELSE LiteralValue(SubSeq(ds, 1, Len(ds) - 1)) * 10 + DigitValue(ds[Len(ds)])

\* The place of the first piece p of the line l, 0 when it has none.
IndexOf(l, p) ==
  IF \E k \in 1..Len(l) : l[k] = p THEN Min({k \in 1..Len(l) : l[k] = p}) ELSE 0

Between(l, p, q) == SubSeq(l, IndexOf(l, p) + 1, IndexOf(l, q) - 1)

\* The statements that the timer blocks emit, and any other statement.
StatementKind(l) ==
  IF l = <<"}">> THEN "close"
  ELSE IF l[1] = "static unsigned long " /\ l[Len(l)] = " = 0;" THEN "static"
  ELSE IF l[1] = "static unsigned long " /\ l[Len(l)] = " = millis();" THEN "static"
  ELSE IF l[1] = "static bool " /\ l[Len(l)] = " = false;" THEN "static"
  ELSE IF l[1] = "if (millis() - " /\ l[Len(l)] = "{" THEN "test"
  ELSE IF l[1] = "if (!" /\ l[Len(l)] = "{" THEN "test"
  ELSE IF IndexOf(l, " += ") # 0 /\ l[Len(l)] = "UL;" THEN "assign"
  ELSE IF l[Len(l)] = " = true;" THEN "assign"
  ELSE "statement"

\* The unsigned long literals of a line.
LiteralOf(l) ==
  IF StatementKind(l) = "test" THEN LiteralValue(Between(l, " >= ", "UL) "))
  ELSE IF IndexOf(l, " += ") # 0 THEN LiteralValue(Between(l, " += ", "UL;"))
  ELSE 0

Static(name, value) == [name |-> name, value |-> value]

\* The name declared by a static declaration, and its initial value now.
StaticName(l) == SubSeq(l, 2, Len(l) - 1)
StaticValue(l) == IF l[Len(l)] = " = millis();" THEN millis ELSE 0

\* a - b in unsigned long.
Minus(a, b) == (a - b + Modulus) % Modulus

\* The condition of an if that a timer block emitted.
TestHolds(l) ==
  IF l[1] = "if (millis() - "
  THEN Minus(millis, Get(statics, SubSeq(l, 2, IndexOf(l, " >= ") - 1)).value) >= LiteralOf(l)
  ELSE /\ Get(statics, Between(l, "if (!", " && millis() - ")).value = 0
       /\ Minus(millis, Get(statics, Between(l, " && millis() - ", " >= ")).value) >= LiteralOf(l)

\* The number of lines up to and with the "}" that closes the block opened
\* before line k, depth blocks being open at line k.
RECURSIVE ClosingOf(_, _)
ClosingOf(k, depth) ==
  IF k > Len(loopBody) THEN Len(loopBody)
  ELSE IF startsWithClose(loopBody[k])
       THEN IF depth = 0 THEN k ELSE ClosingOf(k + 1, depth - 1)
  ELSE IF endsWithOpen(loopBody[k]) THEN ClosingOf(k + 1, depth + 1)
  ELSE ClosingOf(k + 1, depth)

Assigned(l) ==
  IF l[Len(l)] = " = true;"
  THEN Static(SubSeq(l, 1, Len(l) - 1), 1)
  ELSE LET name == SubSeq(l, 1, IndexOf(l, " += ") - 1)
       IN Static(name, (Get(statics, name).value + LiteralOf(l)) % Modulus)

AtStatement(kind) ==
  /\ pc = "run"
  /\ ip < Len(loopBody)
  /\ StatementKind(loopBody[ip + 1]) = kind

Step(lines) ==
  /\ ip' = ip + lines
  /\ UNCHANGED <<pc, millis, elapsed>>
  /\ UNCHANGED <<compileVars, formatVars, editorVars>>

\* The generated code is uploaded when its literals fit an unsigned long, and
\* loop() is entered for the first time after setup() has taken some time.
Boot ==
  /\ pc = "done"
  /\ \A k \in 1..Len(loopBody) : LiteralOf(loopBody[k]) < Modulus
  /\ pc' = "run"
  /\ \E d \in 0..MaxStep : millis' = d
  /\ statics' = <<>>
  /\ ip' = 0
  /\ fired' = 0
  /\ elapsed' = 0
  /\ UNCHANGED <<compileVars, formatVars, editorVars>>

\* static T name = init;  the initialisation happens the first time only.
RunStatic ==
  /\ AtStatement("static")
  /\ LET l == loopBody[ip + 1] IN
     statics' = IF Has(statics, StaticName(l)) THEN statics
                ELSE Put(statics, Static(StaticName(l), StaticValue(l)))
  /\ fired' = fired
  /\ Step(1)

\* if (...) {  the block is entered, or the lines to its "}" are passed.
RunTest ==
  /\ AtStatement("test")
  /\ IF TestHolds(loopBody[ip + 1])
     THEN /\ fired < MaxTriggers
          /\ fired' = fired + 1
          /\ Step(1)
     ELSE /\ fired' = fired
          /\ Step(ClosingOf(ip + 2, 0) - ip)
  /\ UNCHANGED statics

\* name += NUL;  and  name = true;
RunAssign ==
  /\ AtStatement("assign")
  /\ statics' = Put(statics, Assigned(loopBody[ip + 1]))
  /\ fired' = fired
  /\ Step(1)

\* Any other statement of the body.
RunStatement ==
  /\ AtStatement("statement")
  /\ UNCHANGED <<statics, fired>>
  /\ Step(1)

RunClose ==
  /\ AtStatement("close")
  /\ UNCHANGED <<statics, fired>>
  /\ Step(1)

\* loop() returns and is called again, d milliseconds after it was called.
LoopAgain(d) ==
  /\ pc = "run"
  /\ ip = Len(loopBody)
  /\ ip' = 0
  /\ millis' = (millis + d) % Modulus
  /\ elapsed' = IF elapsed + d > Modulus THEN Modulus ELSE elapsed + d
  /\ UNCHANGED <<pc, statics, fired>>
  /\ UNCHANGED <<compileVars, formatVars, editorVars>>

Loop == \E d \in 0..MaxStep : LoopAgain(d)

-----------------------------------------------------------------------------
(* AES.format.  A raw line is a sequence of characters; a word of letters  *)
(* (with its colon, for "do:") stands as one indivisible character run.    *)
(* A text is the sequence of lines that split("\n") gives: never empty.    *)

isSpace(ch) == ch \in {" ", "\t"}

\* for (let i = 0; i < s.length; i++) of splitLineComment, from index k on
RECURSIVE splitFrom(_, _, _)
splitFrom(s, k, inStr) ==
  IF k > Len(s) THEN [code |-> s, comment |-> <<>>]
  ELSE LET ch == s[k]
           inStr1 == IF ch = "\"" /\ ~(k > 1 /\ s[k - 1] = "\\") THEN ~inStr ELSE inStr
       IN IF ~inStr1 /\ ch = "#"
          THEN [code |-> SubSeq(s, 1, k - 1), comment |-> Slice(s, k)]
          ELSE IF ~inStr1 /\ ch = "/" /\ k < Len(s) /\ s[k + 1] = "/"
          THEN [code |-> SubSeq(s, 1, k - 1), comment |-> Slice(s, k)]
          ELSE splitFrom(s, k + 1, inStr1)

splitLineComment(line) == splitFrom(line, 1, FALSE)

RECURSIVE trimStart(_)
trimStart(s) == IF s # <<>> /\ isSpace(Head(s)) THEN trimStart(Tail(s)) ELSE s

RECURSIVE trimEnd(_)
trimEnd(s) ==
  IF s # <<>> /\ isSpace(s[Len(s)]) THEN trimEnd(SubSeq(s, 1, Len(s) - 1)) ELSE s

trim(s) == trimEnd(trimStart(s))

\* .replace(/\s{2,}/g, " "): each run of two or more blanks becomes one space.
RECURSIVE collapseSpaces(_)
collapseSpaces(s) ==
  IF s = <<>> THEN <<>>
  ELSE IF Len(s) >= 2 /\ isSpace(s[1]) /\ isSpace(s[2])
  THEN <<" ">> \o collapseSpaces(trimStart(s))
  ELSE <<Head(s)>> \o collapseSpaces(Tail(s))

\* let normalized = trimmed.replace(/\s+$/g, "").replace(/\s{2,}/g, " ")
normalize(trimmed) == collapseSpaces(trimEnd(trimmed))

\* c.endsWith(":") (c.endsWith("do:") adds nothing to it)
isBlockOpener(c0) ==
  LET c == Lower(trim(c0)) IN
  /\ c # <<>>
  /\ c[Len(c)] \in {":", "do:"}

isOutdentLine(c0) ==
  LET c == Lower(trim(c0)) IN
  \/ c = <<"end">>
  \/ c = <<"otherwise", " ", "do:">>
  \/ c = <<"otherwise", ":">>

\* IND.repeat(n)
RECURSIVE indentation(_)
indentation(n) == IF n <= 0 THEN <<>> ELSE <<" ", " ">> \o indentation(n - 1)

\* Math.max(0, n) left out.
unclamped(n) == n

max0(n) == IF n < 0 THEN 0 ELSE n

\* The text pushed to out for one raw line, at running indent ind.
formatLineText(raw, ind) ==
  LET parts == splitLineComment(raw)
      trimmed == trim(parts.code)
      comment == trim(parts.comment)
      localIndent == IF isOutdentLine(trimmed) THEN max0(ind - 1) ELSE ind
      normalized == normalize(trimmed)
      gap == IF normalized # <<>> THEN <<" ", " ">> ELSE <<>>
  IN IF trimmed = <<>> /\ comment = <<>> THEN <<>>
     ELSE indentation(localIndent) \o normalized \o
          (IF comment # <<>> THEN gap \o comment ELSE <<>>)

\* The running indent after one raw line.
formatIndentAfter(raw, ind) ==
  LET parts == splitLineComment(raw)
      trimmed == trim(parts.code)
      comment == trim(parts.comment)
  IN IF trimmed = <<>> /\ comment = <<>> THEN ind
     ELSE IF Lower(trimmed) = <<"end">> THEN max0(ind - 1)
     ELSE IF Lower(trimmed) = <<"otherwise", " ", "do:">> \/ Lower(trimmed) = <<"otherwise", ":">>
     THEN max0(ind - 1) + 1
     ELSE IF isBlockOpener(trimmed) THEN ind + 1
     ELSE ind

\* out.join("\n").replace(/\s+$/g, "") + "\n", as the lines of that text
RECURSIVE dropBlankTail(_)
dropBlankTail(ls) ==
  IF ls # <<>> /\ trimEnd(ls[Len(ls)]) = <<>> THEN dropBlankTail(SubSeq(ls, 1, Len(ls) - 1))
  ELSE ls

formatResult(ls) ==
  LET kept == dropBlankTail(ls) IN
  IF kept = <<>> THEN << <<>>, <<>> >>
  ELSE SubSeq(kept, 1, Len(kept) - 1) \o <<trimEnd(kept[Len(kept)])>> \o << <<>> >>

\* One iteration of the loop over the lines (lines 1218-1254).
FormatLine ==
  /\ pc \in {"format", "reformat"}
  /\ fpos < Len(text)
  /\ out' = Append(out, formatLineText(text[fpos + 1], indent))
  /\ indent' = formatIndentAfter(text[fpos + 1], indent)
  /\ fpos' = fpos + 1
  /\ UNCHANGED <<pc, text, once>>
  /\ UNCHANGED <<compileVars, boardVars, editorVars>>

\* format returns; the editor replaces its text by the result (the format
\* provider of the editor wiring), and the user formats the document again.
FormatReturn ==
  /\ pc = "format"
  /\ fpos = Len(text)
  /\ once' = formatResult(out)
  /\ text' = formatResult(out)
  /\ pc' = "reformat"
  /\ fpos' = 0
  /\ indent' = 0
  /\ out' = <<>>
  /\ UNCHANGED <<compileVars, boardVars, editorVars>>

ReformatReturn ==
  /\ pc = "reformat"
  /\ fpos = Len(text)
  /\ text' = formatResult(out)
  /\ pc' = "formatted"
  /\ UNCHANGED <<fpos, indent, out, once>>
  /\ UNCHANGED <<compileVars, boardVars, editorVars>>

-----------------------------------------------------------------------------
(* Specifications.  A run compiles one source, or formats one text twice.  *)

NoFormat ==
  /\ text = << <<>> >>
  /\ fpos = 0
  /\ indent = 0
  /\ out = <<>>
  /\ once = <<>>

\* The board is off and the editor has made no call.
NoBoard ==
  /\ millis = 0
  /\ statics = <<>>
  /\ ip = 0
  /\ fired = 0
  /\ elapsed = 0

NoCalls ==
  /\ results = <<>>
  /\ calls = 0

\* The state at the call of transpile(source), for the sources of at most
\* MaxLines lines over the lines of L.
\* The locals of a call before its first line, on a board that is off.
FreshLocals ==
  /\ i = 0
  /\ inStructure = FALSE
  /\ symbols = makeSymbols
  /\ diagnostics = <<>>
  /\ setupBody = <<>>
  /\ loopBody = <<>>
  /\ funcBodies = <<>>
  /\ current = Null
  /\ stack = <<>>
  /\ sawSetup = FALSE
  /\ sawLoop = FALSE
  /\ internalId = 0
  /\ sketch = <<>>
  /\ NoFormat
  /\ NoBoard
  /\ NoCalls

FreshCall == pc = "scan" /\ FreshLocals

InitCompile(L) ==
  /\ \E n \in 1..MaxLines : src \in [1..n -> L]
  /\ FreshCall

\* A call on one of the whole programs of P.
InitProgram(P) ==
  /\ src \in P
  /\ FreshCall

\* Lines that declare, assign, read and test the one name "a".
SymbolLines ==
  { <<"setup:">>,
    <<"end">>,
    <<"function", "a", ":">>,
    <<"pin", "a", "is", "13">>,
    <<"pin", "loop", "is", "2">>,
    <<"set", "a", "to", "pin", "2">>,
    <<"set", "a", "to", "1">>,
    <<"set", "a", "to", "\"s\"">>,
    <<"read", "2", "into", "a">>,
    <<"print", "a">> }

\* Block openers of every kind and terminators.
BlockLines ==
  { <<"setup:">>,
    <<"loop:">>,
    <<"function", "f", ":">>,
    <<"if", "a", "is", "0", "do:">>,
    <<"repeat", "2", "times", "do:">>,
    <<"repeat", "-1", "times", "do:">>,
    <<"forever", "do:">>,
    <<"while", "a", "do:">>,
    <<"every", "250", "ms", "do:">>,
    <<"after", "1", "s", "do:">>,
    <<"end">> }

\* Control openers, the alternate branch and a statement, around one setup block.
TopLevelLines ==
  { <<"setup:">>,
    <<"end">>,
    <<"if", "a", "is", "0", "do:">>,
    <<"otherwise", "do:">>,
    <<"repeat", "2", "times", "do:">>,
    <<"forever", "do:">>,
    <<"while", "a", "do:">>,
    <<"every", "250", "ms", "do:">>,
    <<"after", "1", "s", "do:">>,
    <<"toggle", "13">> }

InitSymbols == InitCompile(SymbolLines)

NextSymbols ==
  \/ ScanLine
  \/ StartWalk
  \/ SetupOpener
  \/ FunctionOpener
  \/ PinDeclaration
  \/ End
  \/ NoStructure
  \/ Commands
  \/ Finish

SpecSymbols == InitSymbols /\ [][NextSymbols]_vars

InitBlocks == InitCompile(BlockLines)

NextBlocks ==
  \/ ScanLine
  \/ StartWalk
  \/ SetupOpener
  \/ LoopOpener
  \/ FunctionOpener
  \/ IfOpener
  \/ RepeatOpener
  \/ ForeverOpener
  \/ WhileOpener
  \/ EveryOpener
  \/ AfterOpener
  \/ End
  \/ Finish

SpecBlocks == InitBlocks /\ [][NextBlocks]_vars

InitTopLevel == InitCompile(TopLevelLines)

NextTopLevel ==
  \/ ScanLine
  \/ StartWalk
  \/ SetupOpener
  \/ IfOpener
  \/ Otherwise
  \/ RepeatOpener
  \/ ForeverOpener
  \/ WhileOpener
  \/ EveryOpener
  \/ AfterOpener
  \/ End
  \/ NoStructure
  \/ Commands
  \/ Finish

SpecTopLevel == InitTopLevel /\ [][NextTopLevel]_vars

\* Raw lines for the formatter.
FormatLines ==
  { <<>>,
    <<"x">>,
    <<" ", "x", " ">>,
    <<"x", ":">>,
    <<"end">>,
    <<"otherwise", " ", "do:">>,
    <<"otherwise", " ", " ", "do:">>,
    <<"x", " ", " ", "x">>,
    <<"x", " ", "#", " ", "x">>,
    <<"#", "x">> }

MaxTextLines == 3
MaxRunLines == 3

InitFormat ==
  /\ \E n \in 1..MaxTextLines : text \in [1..n -> FormatLines]
  /\ pc = "format"
  /\ fpos = 0
  /\ indent = 0
  /\ out = <<>>
  /\ once = <<>>
  /\ src = << <<>> >>
  /\ i = 0
  /\ inStructure = FALSE
  /\ symbols = makeSymbols
  /\ diagnostics = <<>>
  /\ setupBody = <<>>
  /\ loopBody = <<>>
  /\ funcBodies = <<>>
  /\ current = Null
  /\ stack = <<>>
  /\ sawSetup = FALSE
  /\ sawLoop = FALSE
  /\ internalId = 0
  /\ sketch = <<>>
  /\ NoBoard
  /\ NoCalls

NextFormat ==
  \/ FormatLine
  \/ FormatReturn
  \/ ReformatReturn

SpecFormat == InitFormat /\ [][NextFormat]_vars

\* Statement lines: accepted ones, ones whose operand is rejected, one that
\* two recognizers match, and ones that no recognizer matches.
CommandLines ==
  { <<"setup:">>,
    <<"toggle", "13">>,
    <<"toggle", "x">>,
    <<"set", "3", "to", "pwm", "250">>,
    <<"set", "a", "to", "pwm", "250">>,
    <<"set", "a", "to", "1">>,
    <<"read", "time", "into", "a">>,
    <<"read", "analog", "into", "a">>,
    <<"blink", "13">> }

InitCommands == InitCompile(CommandLines)

NextCommands ==
  \/ ScanLine
  \/ StartWalk
  \/ SetupOpener
  \/ NoStructure
  \/ Commands
  \/ Finish

SpecCommands == InitCommands /\ [][NextCommands]_vars

\* Pin and function declarations, outside and inside blocks.
DeclarationLines ==
  { <<"setup:">>,
    <<"function", "f", ":">>,
    <<"forever", "do:">>,
    <<"end">>,
    <<"pin", "a", "is", "13">>,
    <<"set", "b", "to", "pin", "2">> }

InitDeclarations == InitCompile(DeclarationLines)

NextDeclarations ==
  \/ ScanLine
  \/ StartWalk
  \/ SetupOpener
  \/ FunctionOpener
  \/ PinDeclaration
  \/ ForeverOpener
  \/ End
  \/ Finish

SpecDeclarations == InitDeclarations /\ [][NextDeclarations]_vars

\* Observations of one variable with a hint of every rank.
TypeLines ==
  { <<"setup:">>,
    <<"set", "a", "to", "true">>,
    <<"read", "2", "into", "a">>,
    <<"set", "a", "to", "1">>,
    <<"read", "time", "into", "a">>,
    <<"set", "a", "to", "1.5">>,
    <<"set", "a", "to", "\"s\"">> }

InitTypes == InitCompile(TypeLines)

NextTypes ==
  \/ ScanLine
  \/ StartWalk
  \/ SetupOpener
  \/ NoStructure
  \/ Commands
  \/ Finish

SpecTypes == InitTypes /\ [][NextTypes]_vars

\* Calls of a declared and of an undeclared function, before and after the
\* declaration.
CallLines ==
  { <<"setup:">>,
    <<"end">>,
    <<"function", "f", ":">>,
    <<"call", "f">>,
    <<"call", "g">> }

InitCalls == InitCompile(CallLines)

NextCalls ==
  \/ ScanLine
  \/ StartWalk
  \/ SetupOpener
  \/ FunctionOpener
  \/ End
  \/ NoStructure
  \/ Commands
  \/ Finish

SpecCalls == InitCalls /\ [][NextCalls]_vars

\* A line of every kind the two loops tell apart: blank, structure, declaration,
\* accepted and refused openers, branch, terminator, known and unknown command.
RunLines ==
  { <<>>,
    <<"setup:">>,
    <<"function", "f", ":">>,
    <<"pin", "a", "is", "13">>,
    <<"if", "a", "is", "0", "do:">>,
    <<"otherwise", "do:">>,
    <<"repeat", "-1", "times", "do:">>,
    <<"end">>,
    <<"toggle", "13">>,
    <<"blink", "13">> }

InitRun == InitCompile(RunLines) /\ Len(src) <= MaxRunLines

NextRun ==
  \/ ScanLine
  \/ StartWalk
  \/ WalkBlank
  \/ SetupOpener
  \/ FunctionOpener
  \/ PinDeclaration
  \/ IfOpener
  \/ Otherwise
  \/ RepeatOpener
  \/ End
  \/ NoStructure
  \/ Commands
  \/ Finish

\* The two loops are plain for loops of one thread: a step that can be taken
\* is taken.
FairRun == InitRun /\ [][NextRun]_vars /\ WF_vars(NextRun)

\* Pin declarations and pin operands of every shape: numbers outside the
\* board's range, a label outside its analog list, declared and undeclared
\* names, and no operand at all.
PinLines ==
  { <<"setup:">>,
    <<"pin", "a", "is", "14">>,
    <<"pin", "a", "is", "A6">>,
    <<"set", "b", "to", "pin", "-1">>,
    <<"toggle", "14">>,
    <<"toggle", "pin", "-1">>,
    <<"toggle", "A6">>,
    <<"toggle", "x">>,
    <<"toggle", "a">>,
    <<"toggle">> }

InitPins == InitCompile(PinLines)

NextPins ==
  \/ ScanLine
  \/ StartWalk
  \/ SetupOpener
  \/ PinDeclaration
  \/ NoStructure
  \/ Commands
  \/ Finish

SpecPins == InitPins /\ [][NextPins]_vars

\* Conditions and expressions over a declared pin and over undeclared names.
ExpressionLines ==
  { <<"setup:">>,
    <<"end">>,
    <<"pin", "a", "is", "13">>,
    <<"if", "a", "is", "0", "do:">>,
    <<"if", "button", "is", "0", "do:">>,
    <<"while", "button", "is", "a", "do:">>,
    <<"set", "x", "to", "a">>,
    <<"set", "x", "to", "y">> }

InitExpressions == InitCompile(ExpressionLines)

NextExpressions ==
  \/ ScanLine
  \/ StartWalk
  \/ SetupOpener
  \/ PinDeclaration
  \/ IfOpener
  \/ WhileOpener
  \/ End
  \/ NoStructure
  \/ Commands
  \/ Finish

SpecExpressions == InitExpressions /\ [][NextExpressions]_vars

\* Declarations of every kind and of every type, with and without the entry blocks.
AssemblyLines ==
  { <<"setup:">>,
    <<"loop:">>,
    <<"end">>,
    <<"function", "f", ":">>,
    <<"function", "g", ":">>,
    <<"pin", "a", "is", "13">>,
    <<"set", "b", "to", "true">>,
    <<"set", "c", "to", "1.5">>,
    <<"read", "time", "into", "d">>,
    <<"set", "e", "to", "\"s\"">>,
    <<"set", "h", "to", "1">> }

InitAssembly == InitCompile(AssemblyLines)

NextAssembly ==
  \/ ScanLine
  \/ StartWalk
  \/ SetupOpener
  \/ LoopOpener
  \/ FunctionOpener
  \/ PinDeclaration
  \/ End
  \/ NoStructure
  \/ Commands
  \/ Finish

SpecAssembly == InitAssembly /\ [][NextAssembly]_vars

\* Whole programs with one periodic block in loop:.
EveryPrograms ==
  { <<<<"setup:">>, <<"end">>, <<"loop:">>, <<"every", n, unit, "do:">>, <<"toggle", "13">>,
      <<"end">>, <<"end">>>> : n \in {"2", "3"}, unit \in {"ms", "milliseconds"} }
  \cup
  { <<<<"setup:">>, <<"end">>, <<"loop:">>, <<"every", "1", unit, "do:">>, <<"toggle", "13">>,
      <<"end">>, <<"end">>>> : unit \in {"s", "seconds"} }

InitEvery == InitProgram(EveryPrograms)

NextEvery ==
  \/ ScanLine
  \/ StartWalk
  \/ SetupOpener
  \/ LoopOpener
  \/ EveryOpener
  \/ End
  \/ Commands
  \/ Finish
  \/ Boot
  \/ RunStatic
  \/ RunTest
  \/ RunAssign
  \/ RunStatement
  \/ RunClose
  \/ Loop

SpecEvery == InitEvery /\ [][NextEvery]_vars

\* Whole programs with one delayed block in loop:.
AfterPrograms ==
  { <<<<"setup:">>, <<"end">>, <<"loop:">>, <<"after", n, unit, "do:">>, <<"toggle", "13">>,
      <<"end">>, <<"end">>>> : n \in {"0", "2", "3"}, unit \in {"ms", "milliseconds"} }
  \cup
  { <<<<"setup:">>, <<"end">>, <<"loop:">>, <<"after", "1", unit, "do:">>, <<"toggle", "13">>,
      <<"end">>, <<"end">>>> : unit \in {"s", "seconds"} }

InitAfter == InitProgram(AfterPrograms)

NextAfter ==
  \/ ScanLine
  \/ StartWalk
  \/ SetupOpener
  \/ LoopOpener
  \/ AfterOpener
  \/ End
  \/ Commands
  \/ Finish
  \/ Boot
  \/ RunStatic
  \/ RunTest
  \/ RunAssign
  \/ RunStatement
  \/ RunClose
  \/ Loop

\* A pass through loop() in which millis() advances.
TimeAdvances == \E d \in 1..MaxStep : LoopAgain(d)

\* The Arduino core calls loop() for ever, each statement ends, and the clock
\* of the board runs: passes in which millis() has advanced keep happening.
FairAfter == InitAfter /\ [][NextAfter]_vars /\ WF_vars(NextAfter) /\ SF_vars(TimeAdvances)

\* AES_EXAMPLES["Blink (pin variable)"], line by line without comments and
\* indentation, with the pin name and the two waits varied.
Blink(name, on, off) ==
  << <<>>,
     <<"pin", name, "is", "13">>,
     <<>>,
     <<"setup:">>,
     <<"make", name, "output">>,
     <<"end">>,
     <<>>,
     <<"loop:">>,
     <<"turn", name, "on">>,
     <<"wait">> \o on,
     <<"turn", name, "off">>,
     <<"wait">> \o off,
     <<"end">>,
     <<>> >>

BlinkWaits == {<<"500", "ms">>, <<"250", "milliseconds">>, <<"1", "s">>, <<"2", "seconds">>}

BlinkPrograms == {Blink(name, on, off) : name \in {"led", "a"}, on \in BlinkWaits, off \in BlinkWaits}

InitBlink == InitProgram(BlinkPrograms)

NextBlink ==
  \/ ScanLine
  \/ StartWalk
  \/ WalkBlank
  \/ PinDeclaration
  \/ SetupOpener
  \/ LoopOpener
  \/ Commands
  \/ End
  \/ Finish

SpecBlink == InitBlink /\ [][NextBlink]_vars

-----------------------------------------------------------------------------
(* The editor.  Its handlers call the service one call after the other:    *)
(* the functions of the service are synchronous, so a call has returned    *)
(* before the next one begins.                                              *)

MaxCalls == 3

\* Whole sources, two of them using the name that only the first declares.
EditorSources ==
  { <<<<"pin", "a", "is", "13">>, <<"setup:">>, <<"toggle", "a">>, <<"end">>>>,
    <<<<"setup:">>, <<"toggle", "a">>, <<"end">>>>,
    <<<<"setup:">>, <<"set", "a", "to", "1">>>> }

EditorTexts ==
  { <<<<"x", ":">>, <<"x">>>>,
    <<<<" ", "x", " ">>>> }

Returned == pc \in {"idle", "formatted"}

\* The locals of extractSymbols, which transpile calls first.
CallExtractSymbolsKeeping(source, first) ==
  /\ Returned
  /\ calls < MaxCalls
  /\ calls' = calls + 1
  /\ src' = source
  /\ pc' = first
  /\ i' = 0
  /\ inStructure' = FALSE
  /\ UNCHANGED <<symbols, diagnostics>>
  /\ UNCHANGED <<setupBody, loopBody, funcBodies, current, stack, sawSetup, sawLoop,
                 internalId, sketch, results>>
  /\ UNCHANGED <<formatVars, boardVars>>

\* const symbols = makeSymbols(); const diagnostics = []; let inStructure = false;
CallExtractSymbols(source, first) ==
  /\ Returned
  /\ calls < MaxCalls
  /\ calls' = calls + 1
  /\ src' = source
  /\ pc' = first
  /\ i' = 0
  /\ symbols' = makeSymbols
  /\ diagnostics' = <<>>
  /\ inStructure' = FALSE
  /\ UNCHANGED <<setupBody, loopBody, funcBodies, current, stack, sawSetup, sawLoop,
                 internalId, sketch, results>>
  /\ UNCHANGED <<formatVars, boardVars>>

\* runTranspile: AES.transpile(editor.getValue())
CallTranspile == \E source \in EditorSources : CallExtractSymbols(source, "scan")

\* getSymbolsCached: AES.extractSymbols(model.getValue())
CallAnalysis == \E source \in EditorSources : CallExtractSymbols(source, "analyse")

\* The loop of extractSymbols when the editor calls it.
AnalyseLine ==
  /\ pc = "analyse"
  /\ i < Len(src)
  /\ LET S == extractSymbolsLine(
                [symbols |-> symbols, diagnostics |-> diagnostics, inStructure |-> inStructure],
                src[i + 1], i + 1)
     IN /\ symbols' = S.symbols
        /\ diagnostics' = S.diagnostics
        /\ inStructure' = S.inStructure
  /\ i' = i + 1
  /\ UNCHANGED <<src, pc, setupBody, loopBody, funcBodies, current, stack,
                 sawSetup, sawLoop, internalId, sketch>>
  /\ UNCHANGED <<formatVars, boardVars, editorVars>>

\* provideDocumentFormattingEdits: AES.format(model.getValue())
CallFormat ==
  /\ Returned
  /\ calls < MaxCalls
  /\ calls' = calls + 1
  /\ text' \in EditorTexts
  /\ pc' = "format"
  /\ fpos' = 0
  /\ indent' = 0
  /\ out' = <<>>
  /\ once' = <<>>
  /\ UNCHANGED <<compileVars, boardVars, results>>

\* return { cpp, diagnostics, symbols } and return { symbols, diagnostics }
Return ==
  /\ \/ pc = "done"
     \/ pc = "analyse" /\ i = Len(src)
  /\ results' = Append(results,
       [call |-> IF pc = "done" THEN "transpile" ELSE "extractSymbols",
        source |-> src,
        cpp |-> IF pc = "done" THEN sketch ELSE <<>>,
        diagnostics |-> diagnostics,
        symbols |-> symbols])
  /\ pc' = "idle"
  /\ UNCHANGED <<compileVars, formatVars, boardVars, calls>>

InitEditor ==
  /\ src = << <<>> >>
  /\ pc = "idle"
  /\ FreshLocals

NextEditor ==
  \/ CallTranspile
  \/ CallAnalysis
  \/ CallFormat
  \/ ScanLine
  \/ StartWalk
  \/ PinDeclaration
  \/ SetupOpener
  \/ Commands
  \/ End
  \/ Finish
  \/ AnalyseLine
  \/ Return
  \/ FormatLine
  \/ FormatReturn
  \/ ReformatReturn

SpecEditor == InitEditor /\ [][NextEditor]_vars

\* Pulse-width writes to a number, to a name and to "pin N", with the plain
\* assignment of the same name, around one declaration and one setup block.
PwmLines ==
  { <<"setup:">>,
    <<"pin", "a", "is", "3">>,
    <<"set", "a", "to", "pwm", "250">>,
    <<"set", "x", "to", "pwm", "250">>,
    <<"set", "3", "to", "pwm", "250">>,
    <<"set", "pin", "3", "to", "pwm", "250">>,
    <<"set", "a", "to", "1">>,
    <<"set", "x", "to", "1">> }

InitPwm == InitCompile(PwmLines)

NextPwm ==
  \/ ScanLine
  \/ StartWalk
  \/ SetupOpener
  \/ PinDeclaration
  \/ NoStructure
  \/ Commands
  \/ Finish

SpecPwm == InitPwm /\ [][NextPwm]_vars

\* Control openers that fail validation, an accepted one, and terminators,
\* around a setup block.
RejectedLines ==
  { <<"setup:">>,
    <<"end">>,
    <<"repeat", "-1", "times", "do:">>,
    <<"if", " ", "do:">>,
    <<"while", " ", "do:">>,
    <<"forever", "do:">> }

InitRejected == InitCompile(RejectedLines)

NextRejected ==
  \/ ScanLine
  \/ StartWalk
  \/ SetupOpener
  \/ IfOpener
  \/ RepeatOpener
  \/ ForeverOpener
  \/ WhileOpener
  \/ End
  \/ Finish

SpecRejected == InitRejected /\ [][NextRejected]_vars

\* Raw lines with string literals and trailing comments for the formatter.
StringLines ==
  { <<"x", " ", "\"", "a", " ", " ", "b", "\"">>,
    <<" ", "x", " ", " ", "\"", "a", " ", "b", "\"", " ">>,
    <<"x", " ", "\"", "#", "\"", " ", "#", " ", "c", " ", " ", "d">>,
    <<"x", ":", " ", "/", "/", "c">>,
    <<"end">>,
    <<>> }

InitStrings ==
  /\ \E n \in 1..MaxTextLines : text \in [1..n -> StringLines]
  /\ pc = "format"
  /\ fpos = 0
  /\ indent = 0
  /\ out = <<>>
  /\ once = <<>>
  /\ src = << <<>> >>
  /\ i = 0
  /\ inStructure = FALSE
  /\ symbols = makeSymbols
  /\ diagnostics = <<>>
  /\ setupBody = <<>>
  /\ loopBody = <<>>
  /\ funcBodies = <<>>
  /\ current = Null
  /\ stack = <<>>
  /\ sawSetup = FALSE
  /\ sawLoop = FALSE
  /\ internalId = 0
  /\ sketch = <<>>
  /\ NoBoard
  /\ NoCalls

SpecStrings == InitStrings /\ [][NextFormat]_vars

Init == InitSymbols \/ InitBlocks \/ InitTopLevel \/ InitCommands
          \/ InitDeclarations \/ InitTypes \/ InitCalls \/ InitRun
          \/ InitPins
          \/ InitExpressions
          \/ InitAssembly
          \/ InitEvery
          \/ InitAfter
          \/ InitBlink
          \/ InitEditor
          \/ InitPwm
          \/ InitRejected
          \/ InitStrings
          \/ InitFormat

Next ==
  \/ NextSymbols
  \/ NextBlocks
  \/ NextTopLevel
  \/ NextCommands
  \/ NextDeclarations
  \/ NextTypes
  \/ NextCalls
  \/ NextRun
  \/ NextPins
  \/ NextExpressions
  \/ NextAssembly
  \/ NextEvery
  \/ NextAfter
  \/ NextBlink
  \/ NextEditor
  \/ NextPwm
  \/ NextRejected
  \/ NextFormat

Spec == Init /\ [][Next]_vars

-----------------------------------------------------------------------------
(* Properties.                                                             *)

\* The number of entries of the sequence s that pass Test.
Count(Test(_), s) == Cardinality({k \in 1..Len(s) : Test(s[k])})

LastDiagnostic == diagnostics[Len(diagnostics)]

\* One error was appended to the diagnostics, at the given line.
OneErrorAdded(lineNo) ==
  /\ Len(diagnostics') = Len(diagnostics) + 1
  /\ SubSeq(diagnostics', 1, Len(diagnostics)) = diagnostics
  /\ diagnostics'[Len(diagnostics')].severity = "error"
  /\ diagnostics'[Len(diagnostics')].line = lineNo

\* C1: formatting is idempotent: formatting the output of format gives that
\* output again, whatever the whitespace of the lines of the text.
FormatIdempotent == pc = "formatted" => text = once

IsTypeChange(d) == d.severity = "warning" /\ d.message[1] = "Variable \""

SetNumber == <<"set", "a", "to", "1">>
SetString == <<"set", "a", "to", "\"s\"">>

\* The source opens setup: and, inside it, assigns a number and a string to
\* the variable a, in either order; nothing else but terminators follows.
MixedAssignments ==
  /\ Len(src) >= 3
  /\ src[1] = <<"setup:">>
  /\ {src[2], src[3]} = {SetNumber, SetString}
  /\ \A k \in 4..Len(src) : src[k] = <<"end">>

\* C2: a variable assigned a number and a string inside an open structural
\* block, in either order, ends with the type String, and the compilation
\* holds exactly one type-change warning.
MonotonicTyping ==
  (pc = "done" /\ MixedAssignments)
    => /\ Has(symbols.vars, "a")
       /\ Get(symbols.vars, "a").type = "String"
       /\ Count(IsTypeChange, diagnostics) = 1

TableNames ==
  {symbols.pins[k].name : k \in 1..Len(symbols.pins)}
    \cup {symbols.vars[k].name : k \in 1..Len(symbols.vars)}
    \cup {symbols.funcs[k].name : k \in 1..Len(symbols.funcs)}

TablesHolding(n) ==
  {t \in {"pins", "vars", "funcs"} : Has(symbols[t], n)}

\* C3: in every state of a compilation, no name is in more than one of the
\* pin table, the variable table and the function table.
NamesUnique == \A n \in TableNames : Cardinality(TablesHolding(n)) <= 1

\* The nesting depth of the source after its first k lines: every block
\* opener adds one, every "end" takes one away.
RECURSIVE Depth(_)
Depth(k) ==
  IF k = 0 THEN 0
  ELSE LET kind == WalkKind(src[k]) IN
       IF kind \in {"setup", "loop", "function"} \cup ControlTypes THEN Depth(k - 1) + 1
       ELSE IF kind = "end" THEN max0(Depth(k - 1) - 1)
       ELSE Depth(k - 1)

\* Line k of the source is outside every block.
TopLevel(k) == Depth(k - 1) = 0

IsPinDeclaration(l) == matchPinIs(l) \/ matchSetToPin(l)

NameTaken(n) ==
  \/ n \in RESERVED
  \/ Has(symbols.pins, n)
  \/ Has(symbols.vars, n)
  \/ Has(symbols.funcs, n)

\* The next line is a top-level pin declaration of a name that is reserved
\* or already a pin, a variable or a function.
AtRejectedPinDeclaration ==
  /\ pc \in {"scan", "walk"}
  /\ i < Len(src)
  /\ IsPinDeclaration(src[i + 1])
  /\ TopLevel(i + 1)
  /\ NameTaken(src[i + 1][2])

\* C4: a top-level pin declaration whose name is reserved or already a
\* variable, a function or a pin adds one error (in the symbol pass; the
\* block pass skips the line) and leaves the three symbol tables as they were.
PinRejectionKeepsTables ==
  [][AtRejectedPinDeclaration
       => /\ symbols' = symbols
          /\ pc = "scan" => OneErrorAdded(i + 1)
          /\ pc = "walk" => diagnostics' = diagnostics]_vars

\* A top-level declaration of a pin named as a variable has just been rejected.
PinRejected ==
  /\ pc = "scan"
  /\ i >= 1
  /\ IsPinDeclaration(src[i])
  /\ TopLevel(i)
  /\ diagnostics # <<>>
  /\ LastDiagnostic.line = i
  /\ Len(LastDiagnostic.message) = 3
  /\ LastDiagnostic.message[3] = "\" is already a variable. Pins and variables need different names."
  /\ Has(symbols.vars, src[i][2])
  /\ ~Has(symbols.pins, src[i][2])

DeclaresFunction(l, n) == matchFunction(l) /\ l[2] = n

DeclaredNames == {src[k][2] : k \in {m \in 1..Len(src) : matchFunction(src[m])}}

\* Lines j < k are the two declarations of the function n, both top-level.
DeclaredTwice(n, j, k) ==
  /\ j < k
  /\ DeclaresFunction(src[j], n)
  /\ DeclaresFunction(src[k], n)
  /\ TopLevel(j)
  /\ TopLevel(k)
  /\ \A m \in 1..Len(src) : DeclaresFunction(src[m], n) => m \in {j, k}

IsAlreadyExists(d) == d.severity = "error" /\ d.message[1] = "Function \""

\* One "already exists" error, at line k, and the table entry of n is of line j.
FirstDeclarationKept(n, j, k) ==
  /\ Count(IsAlreadyExists, diagnostics) = 1
  /\ \A m \in 1..Len(diagnostics) :
       IsAlreadyExists(diagnostics[m])
         => diagnostics[m].line = k /\ diagnostics[m].message[2] = n
  /\ Has(symbols.funcs, n)
  /\ Get(symbols.funcs, n).line = j

\* The name n is free when line j declares it: it is not reserved and no
\* earlier line holds it.
FreshAt(n, j) ==
  /\ n \notin RESERVED
  /\ \A m \in 1..(j - 1) : \A t \in 1..Len(src[m]) : src[m][t] # n

\* C5: for two top-level declarations of one function name, the compilation
\* holds exactly one "already exists" error, at the line of the second
\* declaration, and the function table keeps the line of the first.
DuplicateFunction ==
  pc = "done"
    => \A n \in DeclaredNames : \A j, k \in 1..Len(src) :
         (DeclaredTwice(n, j, k) /\ FreshAt(n, j)) => FirstDeclarationKept(n, j, k)

StructuralOpeners == {"setup", "loop", "function"}

\* The depth of the blocks of the first k lines of the source when these
\* are in valid nesting order (a structural opener outside every block, a
\* control opener and an "end" inside one), and -1 when they are not.
RECURSIVE Nesting(_)
Nesting(k) ==
  IF k = 0 THEN 0
  ELSE LET d == Nesting(k - 1)
           kind == WalkKind(src[k])
       IN IF d < 0 THEN -1
          ELSE IF kind \in StructuralOpeners THEN (IF d = 0 THEN 1 ELSE -1)
          ELSE IF kind \in ControlTypes THEN (IF d >= 1 THEN d + 1 ELSE -1)
          ELSE IF kind = "end" THEN (IF d >= 1 THEN d - 1 ELSE -1)
          ELSE d

\* The source is a sequence of openers and terminators in valid nesting
\* order, every opener matched by its own "end".
Balanced ==
  /\ \A k \in 1..Len(src) : WalkKind(src[k]) \in StructuralOpeners \cup ControlTypes \cup {"end"}
  /\ Nesting(Len(src)) = 0

IsStructural(d) ==
  d.message[1] \in { "setup: can't be inside another block.",
                     "loop: can't be inside another block.",
                     "Functions must be top-level (not inside setup/loop).",
                     "Start with setup: and loop: blocks.",
                     "Found \"end\" but there is no open block.",
                     "Unclosed block \"" }

\* C6, as stated: after the compilation of a balanced source the block
\* stack is empty and no diagnostic is about nesting, a missing open block
\* or an unclosed block.
BalancedBlocksAnyOpener ==
  (pc = "done" /\ Balanced)
    => (stack = <<>> /\ Count(IsStructural, diagnostics) = 0)

\* No repeat opener of the source has a negative count.
OpenersValid ==
  \A k \in 1..Len(src) : matchRepeat(src[k]) => IntLiteralValue[src[k][2]] >= 0

\* C6, amended: the same, for the balanced sources all of whose control
\* openers pass their validation.
BalancedBlocks ==
  (pc = "done" /\ Balanced /\ OpenersValid)
    => (stack = <<>> /\ Count(IsStructural, diagnostics) = 0)

\* The compilation of a balanced source of four lines, a control block
\* inside a structural block, has ended.
BalancedCompiled ==
  /\ pc = "done"
  /\ Balanced
  /\ OpenersValid
  /\ Len(src) = 4
  /\ WalkKind(src[2]) \in ControlTypes

IsUnclosed(d) == d.severity = "error" /\ d.message[1] = "Unclosed block \""

\* Every "unclosed block" diagnostic names the block type t.
UnclosedNames(t) ==
  \A m \in 1..Len(diagnostics) : IsUnclosed(diagnostics[m]) => diagnostics[m].message[2] = t

\* C7: at the end of a compilation with a non-empty block stack there is
\* exactly one "unclosed block" error, however many frames are open, and it
\* names the conditional when the conditional is the frame left open last;
\* with an empty stack there is none.
UnclosedBlockDetection ==
  pc = "done"
    => /\ stack # <<>> => Count(IsUnclosed, diagnostics) = 1
       /\ (stack # <<>> /\ stack[Len(stack)].type = "if") => UnclosedNames("if")
       /\ stack = <<>> => Count(IsUnclosed, diagnostics) = 0

\* A compilation has ended with a conditional open inside a structural block.
UnclosedConditional ==
  /\ pc = "done"
  /\ Len(stack) = 2
  /\ stack[2].type = "if"
  /\ \E m \in 1..Len(diagnostics) :
       IsUnclosed(diagnostics[m]) /\ diagnostics[m].message[2] = "if"

\* Exactly one "unclosed block" error, at the last line, naming the type t.
ReportedOnceAtEnd(t) ==
  /\ Count(IsUnclosed, diagnostics) = 1
  /\ \A m \in 1..Len(diagnostics) :
       IsUnclosed(diagnostics[m]) => diagnostics[m].line = Len(src)
  /\ UnclosedNames(t)

\* C8, as stated: with two or more frames open at end-of-source, the one
\* "unclosed block" error is added at end-of-source and names the bottom
\* frame of the stack.
UnclosedNamesOutermost ==
  /\ pc # "done" => Count(IsUnclosed, diagnostics) = 0
  /\ (pc = "done" /\ Len(stack) >= 2) => ReportedOnceAtEnd(stack[1].type)

\* C8, amended: the error names the top frame of the stack, the block that
\* was opened last.
UnclosedNamesInnermost ==
  /\ pc # "done" => Count(IsUnclosed, diagnostics) = 0
  /\ (pc = "done" /\ Len(stack) >= 2) => ReportedOnceAtEnd(stack[Len(stack)].type)

\* A compilation has ended with three frames open.
ThreeFramesOpen ==
  /\ pc = "done"
  /\ Len(stack) = 3
  /\ stack[1].type = "loop"
  /\ stack[3].type = "forever"
  /\ \E m \in 1..Len(diagnostics) :
       IsUnclosed(diagnostics[m]) /\ diagnostics[m].line = Len(src)

StructuralFrames == {k \in 1..Len(stack) : stack[k].type \in StructureTypes}

\* C9: at most one structural frame is on the block stack, and a structural
\* opener met while a structural block is open adds an error and changes
\* neither the stack nor the active output target.
OneStructuralFrame ==
  /\ [](Cardinality(StructuralFrames) <= 1)
  /\ [][(/\ pc = "walk"
         /\ i < Len(src)
         /\ WalkKind(src[i + 1]) \in StructuralOpeners
         /\ StructuralFrames # {})
          => /\ stack' = stack
             /\ current' = current
             /\ funcBodies' = funcBodies
             /\ OneErrorAdded(i + 1)]_vars

\* A loop: line inside the open setup block has just been rejected.
NestedStructureRejected ==
  /\ pc = "walk"
  /\ i >= 2
  /\ WalkKind(src[i]) = "loop"
  /\ stack # <<>>
  /\ stack[1].type = "setup"
  /\ diagnostics # <<>>
  /\ LastDiagnostic.line = i
  /\ LastDiagnostic.message = <<"loop: can't be inside another block.">>

\* C10: while no structural block is open, every control opener, every
\* alternate-branch line and every statement line adds an error, pushes no
\* frame and emits nothing into any body.
OrphanLinesRejected ==
  [][(/\ pc = "walk"
      /\ i < Len(src)
      /\ StructuralFrames = {}
      /\ WalkKind(src[i + 1]) \in ControlTypes \cup {"otherwise", "statement"})
       => /\ OneErrorAdded(i + 1)
          /\ stack' = stack
          /\ current' = current
          /\ setupBody' = setupBody
          /\ loopBody' = loopBody
          /\ funcBodies' = funcBodies]_vars

\* A control opener after the setup block was closed has just been rejected.
OrphanOpenerRejected ==
  /\ pc = "walk"
  /\ i >= 3
  /\ sawSetup
  /\ stack = <<>>
  /\ WalkKind(src[i]) \in ControlTypes
  /\ diagnostics # <<>>
  /\ LastDiagnostic.line = i
  /\ LastDiagnostic.message = <<"Start with setup: and loop: blocks.">>

\* The step appends the one line cppLine to the body of the open structure
\* and changes no other body.
EmittedOnly(cppLine) ==
  /\ current.type = "setup"
       => setupBody' = Append(setupBody, cppLine) /\ UNCHANGED <<loopBody, funcBodies>>
  /\ current.type = "loop"
       => loopBody' = Append(loopBody, cppLine) /\ UNCHANGED <<setupBody, funcBodies>>
  /\ current.type = "func"
       => /\ Get(funcBodies', current.name).body
               = Append(Get(funcBodies, current.name).body, cppLine)
          /\ UNCHANGED <<setupBody, loopBody>>

NothingEmitted == UNCHANGED <<setupBody, loopBody, funcBodies>>

\* The top frame is a conditional without an alternate branch.
OpenConditionalOnTop ==
  /\ stack # <<>>
  /\ stack[Len(stack)].type = "if"
  /\ ~stack[Len(stack)].hasElse

\* C11: an alternate-branch line is accepted exactly when the top frame is
\* a conditional without an alternate branch; accepted, it emits the else
\* separator, sets the flag of that frame and adds no diagnostic; otherwise
\* it adds one error and changes neither the stack nor the output.
OtherwiseBindsToTop ==
  [][(pc = "walk" /\ i < Len(src) /\ WalkKind(src[i + 1]) = "otherwise")
       => IF OpenConditionalOnTop
          THEN /\ stack' = [stack EXCEPT ![Len(stack)].hasElse = TRUE]
               /\ EmittedOnly(<<"}", " else ", "{">>)
               /\ diagnostics' = diagnostics
          ELSE /\ stack' = stack
               /\ NothingEmitted
               /\ OneErrorAdded(i + 1)]_vars

\* A second alternate branch of one conditional has just been rejected.
SecondOtherwiseRejected ==
  /\ pc = "walk"
  /\ i = 4
  /\ WalkKind(src[3]) = "otherwise"
  /\ WalkKind(src[4]) = "otherwise"
  /\ Len(stack) = 2
  /\ stack[2].hasElse
  /\ setupBody[Len(setupBody)] = <<"}", " else ", "{">>
  /\ LastDiagnostic.message = <<"This if already has an otherwise block.">>

IsNoOpenBlock(d) ==
  d.severity = "error" /\ d.message = <<"Found \"end\" but there is no open block.">>

IsMissingSetup(d) == d.severity = "error" /\ d.message = <<"Missing \"setup:\" block.">>
IsMissingLoop(d) == d.severity = "error" /\ d.message = <<"Missing \"loop:\" block.">>

\* C12: a terminator met while the block stack is empty adds a "no open
\* block" error at its line and leaves the stack and the output target as
\* they were; the missing-setup and missing-loop checks are still made at
\* the end of such a run.
EndWithoutBlock ==
  /\ [][(pc = "walk" /\ i < Len(src) /\ WalkKind(src[i + 1]) = "end" /\ stack = <<>>)
          => /\ OneErrorAdded(i + 1)
             /\ IsNoOpenBlock(diagnostics'[Len(diagnostics')])
             /\ stack' = stack
             /\ current' = current
             /\ NothingEmitted]_vars
  /\ []((pc = "done" /\ Count(IsNoOpenBlock, diagnostics) > 0)
          => /\ Count(IsMissingSetup, diagnostics) = (IF sawSetup THEN 0 ELSE 1)
             /\ Count(IsMissingLoop, diagnostics) = (IF sawLoop THEN 0 ELSE 1))

\* A compilation that began with a terminator has ended, and both missing
\* blocks are reported after the "no open block" error.
EndWithoutBlockReported ==
  /\ pc = "done"
  /\ WalkKind(src[1]) = "end"
  /\ IsNoOpenBlock(diagnostics[1])
  /\ diagnostics[1].line = 1
  /\ Count(IsMissingSetup, diagnostics) = 1
  /\ Count(IsMissingLoop, diagnostics) = 1

FirstWordIs(code, w) == Len(code) >= 1 /\ toLowerCase(code[1]) = w

\* The first recognizer, in the order of the list COMMANDS, whose shape the
\* line has, and "none" when the line has the shape of none.
RecognizerOf(code) ==
  IF FirstWordIs(code, "make") THEN "make"
  ELSE IF FirstWordIs(code, "turn") THEN "turn"
  ELSE IF FirstWordIs(code, "toggle") THEN "toggle"
  ELSE IF FirstWordIs(code, "set") /\ PwmAt(code) # {} THEN "pwm"
  ELSE IF matchReadInto(code) /\ toLowerCase(code[2]) # "analog"
          /\ ~matchReadClock(code, "time") /\ ~matchReadClock(code, "micros")
  THEN "read_digital"
  ELSE IF matchReadInto(code) /\ Len(code) >= 5 /\ toLowerCase(code[2]) = "analog"
  THEN "read_analog"
  ELSE IF matchReadClock(code, "time") THEN "read_time"
  ELSE IF matchReadClock(code, "micros") THEN "read_micros"
  ELSE IF FirstWordIs(code, "wait") /\ Len(code) = 3 /\ isDigits(code[2])
          /\ toLowerCase(code[3]) \in WaitUnits
  THEN "wait"
  ELSE IF Len(code) = 4 /\ Lower(SubSeq(code, 1, 3)) = <<"start", "serial", "at">>
          /\ isDigits(code[4])
  THEN "serial"
  ELSE IF FirstWordIs(code, "print") /\ Len(code) >= 2 THEN "print"
  ELSE IF matchSetTo(code) /\ ~matchSetToPin(code) THEN "set"
  ELSE IF FirstWordIs(code, "change") /\ Len(code) >= 4 /\ isIdentifier(code[2])
          /\ toLowerCase(code[3]) = "by"
  THEN "change"
  ELSE IF FirstWordIs(code, "call") /\ Len(code) = 2 /\ isIdentifier(code[2]) THEN "call"
  ELSE "none"

\* What the recognizer r alone makes of the next line.
AloneResult(r) ==
  CASE r = "make" -> cmd_make(Machine, codeLine, lineNumber).M
    [] r = "turn" -> cmd_turn(Machine, codeLine, lineNumber).M
    [] r = "toggle" -> cmd_toggle(Machine, codeLine, lineNumber).M
    [] r = "pwm" -> cmd_pwm(Machine, codeLine, lineNumber).M
    [] r = "read_digital" -> cmd_read_digital(Machine, codeLine, lineNumber).M
    [] r = "read_analog" -> cmd_read_analog(Machine, codeLine, lineNumber).M
    [] r = "read_time" -> cmd_read_time(Machine, codeLine, lineNumber).M
    [] r = "read_micros" -> cmd_read_micros(Machine, codeLine, lineNumber).M
    [] r = "wait" -> cmd_wait(Machine, codeLine, lineNumber).M
    [] r = "serial" -> cmd_serial(Machine, codeLine, lineNumber).M
    [] r = "print" -> cmd_print(Machine, codeLine, lineNumber).M
    [] r = "set" -> cmd_set(Machine, codeLine, lineNumber).M
    [] r = "change" -> cmd_change(Machine, codeLine, lineNumber).M
    [] r = "call" -> cmd_call(Machine, codeLine, lineNumber).M

IsUnknownCommand(d) == d.severity = "error" /\ d.message[1] = "Unknown command: \""

\* The symbols, diagnostics and bodies after the step are those of M.
StepGives(M) ==
  /\ symbols' = M.symbols
  /\ diagnostics' = M.diagnostics
  /\ setupBody' = M.setupBody
  /\ loopBody' = M.loopBody
  /\ funcBodies' = M.funcBodies

\* C13: a statement line inside an open block is owned by the first
\* recognizer whose shape it has: the step does what that recognizer alone
\* does and adds no "Unknown command" error, even when an operand is
\* rejected; a line with the shape of no recognizer adds exactly one
\* "Unknown command" error quoting the line, and nothing else.
FirstRecognizerOwnsLine ==
  [][(pc = "walk" /\ i < Len(src) /\ WalkKind(src[i + 1]) = "statement" /\ current # Null)
       => IF RecognizerOf(src[i + 1]) # "none"
          THEN /\ StepGives(AloneResult(RecognizerOf(src[i + 1])))
               /\ \A m \in (Len(diagnostics) + 1)..Len(diagnostics') :
                    ~IsUnknownCommand(diagnostics'[m])
          ELSE /\ OneErrorAdded(i + 1)
               /\ diagnostics'[Len(diagnostics')].message
                    = <<"Unknown command: \"">> \o src[i + 1] \o <<"\"">>
               /\ NothingEmitted
               /\ symbols' = symbols]_vars

\* A statement whose pin operand was rejected and a statement of no known
\* shape have been processed inside setup.
OperandRejectedAndUnknown ==
  /\ pc = "walk"
  /\ i = 3
  /\ src[2] = <<"toggle", "x">>
  /\ src[3] = <<"blink", "13">>
  /\ current # Null
  /\ Count(IsUnknownCommand, diagnostics) = 1
  /\ LastDiagnostic.message = <<"Unknown command: \"", "blink", "13", "\"">>
  /\ Len(diagnostics) = 2

\* Some error is reported at the line lineNo.
ErrorAt(lineNo) ==
  \E m \in 1..Len(diagnostics) :
    diagnostics[m].severity = "error" /\ diagnostics[m].line = lineNo

\* The table (a sequence of entries) has an entry for n made by line lineNo.
AddedBy(table, n, lineNo) == Has(table, n) /\ Get(table, n).line = lineNo

\* C14: a pin declaration that the block pass meets inside an open
\* structural block was reported as an error by the symbol pass and did not
\* add its name to the pin table.
PinsOnlyOutsideBlocks ==
  (pc = "walk" /\ i < Len(src) /\ IsPinDeclaration(src[i + 1]) /\ current # Null)
    => /\ ErrorAt(i + 1)
       /\ ~AddedBy(symbols.pins, src[i + 1][2], i + 1)

\* C15: a function declaration that the block pass meets while a structural
\* block is open did not add its name to the function table: functions
\* enter the table only from top-level declarations.
FunctionsOnlyTopLevel ==
  (pc = "walk" /\ i < Len(src) /\ matchFunction(src[i + 1]) /\ current # Null)
    => ~AddedBy(symbols.funcs, src[i + 1][2], i + 1)

\* The block pass is at a setup (loop) opener that it accepts: no block is open.
AcceptsOpener(kind) ==
  pc = "walk" /\ i < Len(src) /\ WalkKind(src[i + 1]) = kind /\ current = Null

\* C16: after the lines are processed the run reports a missing setup block
\* exactly when no setup opener was accepted, and a missing loop block exactly
\* when no loop opener was accepted; the two reports are made once each,
\* whatever the other one does and whatever was reported before.
MissingBlocksReported ==
  /\ [][/\ sawSetup' = (sawSetup \/ AcceptsOpener("setup"))
        /\ sawLoop' = (sawLoop \/ AcceptsOpener("loop"))
        /\ AcceptsOpener("setup") => stack' = Append(stack, Frame("setup", ""))
        /\ AcceptsOpener("loop") => stack' = Append(stack, Frame("loop", ""))]_vars
  /\ [](pc \in {"scan", "walk"}
          => /\ Count(IsMissingSetup, diagnostics) = 0
             /\ Count(IsMissingLoop, diagnostics) = 0)
  /\ [](pc = "done"
          => /\ Count(IsMissingSetup, diagnostics) = (IF sawSetup THEN 0 ELSE 1)
             /\ Count(IsMissingLoop, diagnostics) = (IF sawLoop THEN 0 ELSE 1))

\* A loop block was accepted, the setup opener inside it was refused, and the
\* run reports the missing setup block after the refusal.
RefusedSetupIsMissing ==
  /\ pc = "done"
  /\ sawLoop /\ ~sawSetup
  /\ \E k \in 1..Len(src) : WalkKind(src[k]) = "setup"
  /\ Len(diagnostics) >= 2
  /\ IsMissingSetup(LastDiagnostic)
  /\ Count(IsMissingLoop, diagnostics) = 0

\* Every entry of the table is still in the table after the step, with the
\* line that was recorded when it was added.
EntriesKept(table, after) ==
  \A k \in 1..Len(table) :
    /\ Has(after, table[k].name)
    /\ Get(after, table[k].name).line = table[k].line

\* C18: within one run the accumulators only grow: each step leaves the
\* diagnostics so far as a prefix of the new list, keeps every pin, variable
\* and function entry with its recorded line, and keeps every pin's target.
AccumulatorsGrow ==
  [][/\ Len(diagnostics') >= Len(diagnostics)
     /\ SubSeq(diagnostics', 1, Len(diagnostics)) = diagnostics
     /\ EntriesKept(symbols.pins, symbols'.pins)
     /\ EntriesKept(symbols.vars, symbols'.vars)
     /\ EntriesKept(symbols.funcs, symbols'.funcs)
     /\ \A k \in 1..Len(symbols.pins) :
          Get(symbols'.pins, symbols.pins[k].name) = symbols.pins[k]]_vars

\* The variable a was first assigned a number and later a string: its type is
\* String, its line is still the line of the first assignment, and the
\* warnings of both passes are in the list.
UpgradedVariableKeepsLine ==
  /\ pc = "done"
  /\ Has(symbols.vars, "a")
  /\ Get(symbols.vars, "a").type = "String"
  /\ src[Get(symbols.vars, "a").line] = SetNumber
  /\ \E k \in 1..Len(src) : k > Get(symbols.vars, "a").line /\ src[k] = SetString
  /\ Len(diagnostics) >= 2

TypeOf(table, name) == Get(table, name).type

\* The type the variable has after an observation with the hint.
Observed(type, hint) == IF rank(hint) > rank(type) THEN hint ELSE type

\* The hint of an assignment line, from its right-hand side.
AssignedHint(code) == inferTypeFromExpr(SubSeq(code, 4, Len(code)))

\* The run processes an assignment to the variable a, which is in the table.
ReassignsA ==
  /\ Has(symbols.vars, "a")
  /\ i < Len(src)
  /\ matchSetTo(src[i + 1])
  /\ pc = "scan" \/ (pc = "walk" /\ current # Null)

\* C19: the rank of a variable's type (bool < int < long < unsigned long <
\* float < String) never decreases during a run: an observation of a lower or
\* equal rank leaves the type as it is, one of a higher rank replaces it.
TypeRankMonotonic ==
  /\ [][Has(symbols.vars, "a")
          => /\ Has(symbols'.vars, "a")
             /\ rank(TypeOf(symbols'.vars, "a")) >= rank(TypeOf(symbols.vars, "a"))
             /\ TypeOf(symbols'.vars, "a") # TypeOf(symbols.vars, "a")
                  => rank(TypeOf(symbols'.vars, "a")) > rank(TypeOf(symbols.vars, "a"))]_vars
  /\ [][ReassignsA
          => TypeOf(symbols'.vars, "a")
               = Observed(TypeOf(symbols.vars, "a"), AssignedHint(src[i + 1]))]_vars
  /\ [](Has(symbols.vars, "a")
          => \A hint \in DOMAIN TYPE_RANK :
               TypeOf(ensureVar(Machine, "a", hint, 1).symbols.vars, "a")
                 = Observed(TypeOf(symbols.vars, "a"), hint))

\* The variable a was observed as bool, then as String, then as long: the
\* second observation raised its type and the third left it.
RaisedThenKept ==
  /\ pc = "done"
  /\ Len(src) = 4
  /\ src[2] = <<"set", "a", "to", "true">>
  /\ src[3] = SetString
  /\ src[4] = SetNumber
  /\ TypeOf(symbols.vars, "a") = "String"

IsCall(code) == Len(code) = 2 /\ toLowerCase(code[1]) = "call" /\ isIdentifier(code[2])

\* The block pass is at a call line inside an open structure.
AtCall == pc = "walk" /\ i < Len(src) /\ IsCall(src[i + 1]) /\ current # Null

DeclaredNowhere(fn) == \A k \in 1..Len(src) : ~DeclaresFunction(src[k], fn)

\* A top-level line after line k declares the function.
DeclaredLater(fn, k) ==
  \E m \in (k + 1)..Len(src) : DeclaresFunction(src[m], fn) /\ TopLevel(m)

\* One warning was appended to the diagnostics, at the given line.
OneWarningAdded(lineNo) ==
  /\ Len(diagnostics') = Len(diagnostics) + 1
  /\ SubSeq(diagnostics', 1, Len(diagnostics)) = diagnostics
  /\ diagnostics'[Len(diagnostics')].severity = "warning"
  /\ diagnostics'[Len(diagnostics')].line = lineNo

\* C20: a call of a function that no line of the source declares adds one
\* warning, no error, and emits the call; a call of a function that a later
\* top-level line declares emits the call and adds no diagnostic; the symbol
\* pass adds nothing for a call line.
CallsOfUndeclared ==
  /\ [][(AtCall /\ DeclaredNowhere(src[i + 1][2]))
          => /\ OneWarningAdded(i + 1)
             /\ EmittedOnly(<<src[i + 1][2], "();">>)]_vars
  /\ [][(AtCall /\ DeclaredLater(src[i + 1][2], i + 1))
          => /\ diagnostics' = diagnostics
             /\ EmittedOnly(<<src[i + 1][2], "();">>)]_vars
  /\ [][(pc = "scan" /\ i < Len(src) /\ IsCall(src[i + 1]))
          => diagnostics' = diagnostics /\ symbols' = symbols]_vars

\* setup: calls f, which the line after the block declares: the call is
\* emitted, f is in the table with the line of its declaration, and no
\* diagnostic is at the line of the call.
ForwardCallEmitted ==
  /\ pc = "done"
  /\ src = << <<"setup:">>, <<"call", "f">>, <<"end">>, <<"function", "f", ":">> >>
  /\ setupBody = << <<"f", "();">> >>
  /\ Has(symbols.funcs, "f")
  /\ Get(symbols.funcs, "f").line = 4
  /\ \A k \in 1..Len(diagnostics) : diagnostics[k].line # 2

\* C17: the run never aborts: whatever the source and whatever errors occur,
\* each pass takes the lines one by one in order, the symbol pass hands over
\* to the block pass at the end of the source, the block pass finishes at the
\* end of the source, and every run reaches its end.
NeverAborts ==
  /\ [][(pc \in {"scan", "walk"} /\ i < Len(src))
          => /\ i' = i + 1
             /\ pc' = pc
             /\ src' = src]_vars
  /\ [][pc' # pc
          => /\ i = Len(src)
             /\ \/ pc = "scan" /\ pc' = "walk" /\ i' = 0
                \/ pc = "walk" /\ pc' = "done"]_vars
  /\ <>(pc = "done")

\* The run has finished although every line of the source was in error.
RunEndsAfterErrors ==
  /\ pc = "done"
  /\ Len(src) = MaxRunLines
  /\ WalkKind(src[1]) = "end"
  /\ \A k \in 1..Len(src) :
       \E d \in 1..Len(diagnostics) :
         diagnostics[d].line = k /\ diagnostics[d].severity = "error"

\* The token is a digital pin number outside the range of the board.
OutOfRange(t) ==
  /\ isIntLiteral(t)
  /\ IntLiteralValue[t] < BoardDigitalMin \/ IntLiteralValue[t] > BoardDigitalMax

\* The literal of a pin declaration line.
DeclaredLiteral(code) == IF matchPinIs(code) THEN Slice(code, 4) ELSE Slice(code, 5)

\* The symbol pass is at a pin declaration outside setup: and loop: whose
\* name is free and whose literal is the one token t.
AtPinDeclarationOf(t) ==
  /\ pc = "scan"
  /\ i < Len(src)
  /\ IsPinDeclaration(src[i + 1])
  /\ ~inStructure
  /\ ~NameTaken(src[i + 1][2])
  /\ DeclaredLiteral(src[i + 1]) = <<t>>

\* The operand of a toggle line: the literal itself or the literal after "pin".
ToggleOperand(code) == IF Len(code) = 3 THEN code[3] ELSE code[2]

\* The block pass is at "toggle t" or "toggle pin t" inside an open structure.
AtToggleOf(t) ==
  /\ pc = "walk"
  /\ i < Len(src)
  /\ current # Null
  /\ src[i + 1] \in {<<"toggle", t>>, <<"toggle", "pin", t>>}

ToggleCpp(cpp) == <<"digitalWrite(", cpp, ", !digitalRead(", cpp, "));">>

\* C21: a digital pin number outside the board's range 0..13 gives one
\* warning and no error and is used as it is: a declaration with it adds the
\* pin with that number, a statement on it is emitted with that number.
OutOfRangeIsWarning ==
  /\ [][\A t \in {"14", "-1"} :
          AtPinDeclarationOf(t)
            => /\ OneWarningAdded(i + 1)
               /\ AddedBy(symbols'.pins, src[i + 1][2], i + 1)
               /\ Get(symbols'.pins, src[i + 1][2]).cpp = t]_vars
  /\ [][\A t \in {"14", "-1"} :
          AtToggleOf(t)
            => /\ OneWarningAdded(i + 1)
               /\ EmittedOnly(ToggleCpp(t))]_vars

\* Pin a was declared as 14 and b as -1, each with a warning, and the toggle
\* of pin 14 in setup: was emitted with a third warning; no error was added
\* before the end of the source.
OutOfRangePinsUsed ==
  /\ pc = "walk"
  /\ i = Len(src)
  /\ src = << <<"pin", "a", "is", "14">>, <<"set", "b", "to", "pin", "-1">>,
              <<"setup:">>, <<"toggle", "14">> >>
  /\ Get(symbols.pins, "a").cpp = "14"
  /\ Get(symbols.pins, "b").cpp = "-1"
  /\ setupBody = <<ToggleCpp("14")>>
  /\ Len(diagnostics) = 3
  /\ \A k \in 1..3 : diagnostics[k].severity = "warning"

\* C22: an analog channel label outside the board's analog list, such as A6,
\* is accepted as a pin target with one warning: a declaration with it adds
\* the pin with that label, a statement on it is emitted with that label.
AnalogLabelAccepted ==
  /\ [][AtPinDeclarationOf("A6")
          => /\ OneWarningAdded(i + 1)
             /\ AddedBy(symbols'.pins, src[i + 1][2], i + 1)
             /\ Get(symbols'.pins, src[i + 1][2]).cpp = "A6"]_vars
  /\ [][AtToggleOf("A6")
          => /\ OneWarningAdded(i + 1)
             /\ EmittedOnly(ToggleCpp("A6"))]_vars

\* The tokens are a pin reference the resolver accepts: a literal or a
\* declared pin name, alone or after the word "pin".
Resolvable(tokens) ==
  LET Target(t) == isAnalogLiteral(t) \/ isIntLiteral(t) \/ Has(symbols.pins, t)
  IN \/ Len(tokens) = 1 /\ toLowerCase(tokens[1]) # "pin" /\ Target(tokens[1])
     \/ Len(tokens) >= 2 /\ toLowerCase(tokens[1]) = "pin" /\ Target(tokens[2])

\* The block pass is at a toggle line inside an open structure.
AtToggle ==
  /\ pc = "walk"
  /\ i < Len(src)
  /\ current # Null
  /\ FirstWordIs(src[i + 1], "toggle")

\* A toggle whose operand is present and is not a pin reference adds one
\* error for its line and emits nothing.
UnresolvedOperandReported ==
  [][(AtToggle /\ Len(src[i + 1]) > 1 /\ ~Resolvable(Slice(src[i + 1], 2)))
       => OneErrorAdded(i + 1) /\ NothingEmitted]_vars

\* C23: a statement whose pin operand is not a pin reference of one of the
\* accepted shapes adds exactly one error for its line and emits nothing.
UnresolvedPinIsOneError ==
  [][(AtToggle /\ ~Resolvable(Slice(src[i + 1], 2)))
       => OneErrorAdded(i + 1) /\ NothingEmitted]_vars

IsCondition(code) == matchCondBlock(code, "if") \/ matchCondBlock(code, "while")

\* The expression or condition text of the line.
TextOf(code) ==
  IF IsCondition(code) THEN SubSeq(code, 2, Len(code) - 1) ELSE Slice(code, 4)

\* The names in the text of the line that are not reserved words.
NamesIn(code) ==
  {TextOf(code)[k] : k \in {m \in 1..Len(TextOf(code)) :
      isIdentifier(TextOf(code)[m]) /\ TextOf(code)[m] \notin RESERVED}}

\* The block pass is at a condition or an assignment inside an open structure.
AtExpression ==
  /\ pc = "walk"
  /\ i < Len(src)
  /\ current # Null
  /\ IsCondition(src[i + 1]) \/ matchSetTo(src[i + 1])

\* C24: a declared pin named in an expression or a condition is kept as a
\* constant: the line makes no variable of it and adds no diagnostic; every
\* other name of the text that is not a reserved word is a variable after
\* the line.
PinsKeptAsConstants ==
  [][AtExpression
       => \A n \in NamesIn(src[i + 1]) :
            IF Has(symbols.pins, n)
            THEN ~Has(symbols'.vars, n) /\ diagnostics' = diagnostics
            ELSE Has(symbols'.vars, n)]_vars

\* The diagnostics the step adds.
AddedDiagnostics ==
  {diagnostics'[k] : k \in (Len(diagnostics) + 1)..Len(diagnostics')}

\* No diagnostic the step adds names n.
NoneAbout(n) ==
  \A d \in AddedDiagnostics : \A m \in 1..Len(d.message) : d.message[m] # n

ButtonIsZero == <<"if", "button", "is", "0", "do:">>

\* C25: a name that is in no table when a condition or an expression
\* mentions it becomes a variable of the integer default type long, recorded
\* at that line, and no diagnostic is about it; the conditional "button is 0"
\* with button undeclared is rendered as an equality test and adds nothing.
AutoDeclaredInteger ==
  /\ [][AtExpression
          => \A n \in NamesIn(src[i + 1]) :
               ~NameTaken(n)
                 => /\ AddedBy(symbols'.vars, n, i + 1)
                    /\ TypeOf(symbols'.vars, n) = "long"
                    /\ NoneAbout(n)]_vars
  /\ [][(AtExpression /\ src[i + 1] = ButtonIsZero /\ ~NameTaken("button"))
          => /\ diagnostics' = diagnostics
             /\ EmittedOnly(<<"if", " (", "button", "==", "0", ") ", "{">>)]_vars

\* The conditional on the undeclared button, inside setup: and closed: the
\* test and its closing brace are emitted, button is a long of line 2, and
\* the list of diagnostics is empty at the end of the source.
ButtonAutoDeclared ==
  /\ pc = "walk"
  /\ i = Len(src)
  /\ src = << <<"setup:">>, ButtonIsZero, <<"end">>, <<"end">> >>
  /\ setupBody = << <<"if", " (", "button", "==", "0", ") ", "{">>, <<"}">> >>
  /\ AddedBy(symbols.vars, "button", 2)
  /\ TypeOf(symbols.vars, "button") = "long"
  /\ diagnostics = <<>>

\* What a line of the assembled output is: 1 banner, 2 forward declaration,
\* 3 pin constant, 4 variable, 5 head of a function, 6 head of setup, 7 head of
\* loop, and 0 for the lines inside a body, the closing braces and the empty lines.
SectionOf(l) ==
  IF l = <<>> THEN 0
  ELSE IF l[1] \in {"// Generated by Arduino EasyScript (AES) v",
                    "// This file uses ONLY Arduino core functions (no external libraries)."} THEN 1
  ELSE IF Len(l) = 3 /\ l[1] = "void " /\ l[3] = "();" THEN 2
  ELSE IF Len(l) = 5 /\ l[1] = "const int " THEN 3
  ELSE IF Len(l) = 6 /\ l[2] = " " /\ l[4] = " = " THEN 4
  ELSE IF Len(l) = 4 /\ l[1] = "void " /\ l[3] = "() " THEN 5
  ELSE IF l = <<"void setup() ", "{">> THEN 6
  ELSE IF l = <<"void loop() ", "{">> THEN 7
  ELSE 0

\* The zero value of each type, as the output contract words it.
ZeroValue(t) ==
  CASE t = "bool" -> "false"
    [] t = "float" -> "0.0"
    [] t = "String" -> "\"\""
    [] t = "unsigned long" -> "0UL"
    [] OTHER -> "0"

\* A line of the output without its indentation.
RECURSIVE Unindent(_)
Unindent(l) == IF l # <<>> /\ l[1] = "  " THEN Unindent(Tail(l)) ELSE l

Unindented(lines) == [k \in 1..Len(lines) |-> Unindent(lines[k])]

\* The lines between the braces of a body: one empty line for an empty body.
Shown(body) == IF body = <<>> THEN << <<>> >> ELSE body

LinesOf(section) == {k \in 1..Len(sketch) : SectionOf(sketch[k]) = section}

\* C28: the output has the banner, the forward declarations, the pin constants,
\* the variables (each with the zero value of its type), the functions, setup
\* and loop in this order, and setup and loop are there whatever the source has.
AssembledInOrder ==
  pc = "done" =>
    /\ \A j, k \in 1..Len(sketch) :
         j < k /\ SectionOf(sketch[j]) # 0 /\ SectionOf(sketch[k]) # 0
           => SectionOf(sketch[j]) <= SectionOf(sketch[k])
    /\ LinesOf(1) = {1, 2}
    /\ \A k \in 1..Len(funcBodies) :
         /\ \E j \in LinesOf(2) : sketch[j][2] = funcBodies[k].name
         /\ \E j \in LinesOf(5) : sketch[j][2] = funcBodies[k].name
    /\ Cardinality(LinesOf(2)) = Len(funcBodies)
    /\ Cardinality(LinesOf(5)) = Len(funcBodies)
    /\ \A k \in 1..Len(symbols.pins) :
         \E j \in LinesOf(3) :
           sketch[j] = <<"const int ", symbols.pins[k].name, " = ", symbols.pins[k].cpp, ";">>
    /\ Cardinality(LinesOf(3)) = Len(symbols.pins)
    /\ \A k \in 1..Len(symbols.vars) :
         \E j \in LinesOf(4) :
           sketch[j] = <<symbols.vars[k].type, " ", symbols.vars[k].name, " = ",
                         ZeroValue(symbols.vars[k].type), ";">>
    /\ Cardinality(LinesOf(4)) = Len(symbols.vars)
    /\ \E s, l \in 1..Len(sketch) :
         /\ LinesOf(6) = {s}
         /\ LinesOf(7) = {l}
         /\ Unindented(SubSeq(sketch, s + 1, l - 3)) = Shown(setupBody)
         /\ sketch[l - 2] = <<"}">>
         /\ sketch[l - 1] = <<>>
         /\ Unindented(SubSeq(sketch, l + 1, Len(sketch) - 1)) = Shown(loopBody)
         /\ sketch[Len(sketch)] = <<"}">>

\* A source with a function, a pin and variables of two types, and no entry block.
AssembledWithoutEntryBlocks ==
  /\ pc = "done"
  /\ ~sawSetup
  /\ ~sawLoop
  /\ funcBodies # <<>>
  /\ symbols.pins # <<>>
  /\ \E j, k \in 1..Len(symbols.vars) :
       symbols.vars[j].type = "bool" /\ symbols.vars[k].type = "float"

\* The periodic block of the programs of EveryPrograms: its opener is line 4,
\* and its counter is the first internal name.
EveryCounter == <<"__every_", "1", "_last">>

EveryInterval ==
  IF src[4][3] \in {"s", "second", "seconds"}
  THEN IntLiteralValue[src[4][2]] * 1000
  ELSE IntLiteralValue[src[4][2]]

\* The lines emitted for the opener: one static counter that starts at 0, the
\* test against the interval, and the addition of the interval.
EveryEmitted ==
  /\ Len(loopBody) >= 3
  /\ loopBody[1] = <<"static unsigned long ">> \o EveryCounter \o <<" = 0;">>
  /\ loopBody[2] = <<"if (millis() - ">> \o EveryCounter \o <<" >= ">>
                     \o Decimal(EveryInterval) \o <<"UL) ", "{">>
  /\ loopBody[3] = EveryCounter \o <<" += ">> \o Decimal(EveryInterval) \o <<"UL;">>
  /\ \A k \in 4..Len(loopBody) : \A j \in 1..Len(loopBody[k]) : loopBody[k][j] # "_last"

\* The triggers whose addition has been made: the addition follows the test.
Added == IF ip = 2 THEN fired - 1 ELSE fired

\* C26 as stated: whatever the number of passes, the counter of the periodic
\* block is an exact multiple of the interval.
EveryCounterIsMultiple ==
  pc = "run" /\ Has(statics, EveryCounter)
    => Get(statics, EveryCounter).value % EveryInterval = 0

\* C26: the periodic block keeps one static counter that starts at 0, and every
\* trigger adds the interval (N, or N * 1000 for seconds) to it in unsigned long:
\* after k triggers the counter is k times the interval modulo 2^WordBits, so a
\* multiple of the interval as long as it has not wrapped.
EveryCounterAdvances ==
  /\ pc \in {"done", "run"} => EveryEmitted
  /\ pc = "run" /\ Has(statics, EveryCounter)
       => /\ Get(statics, EveryCounter).value = (Added * EveryInterval) % Modulus
          /\ Added * EveryInterval < Modulus
               => Get(statics, EveryCounter).value % EveryInterval = 0

\* The counter has wrapped: six triggers of 3 ms leave it at 2.
EveryCounterWrapped ==
  /\ pc = "run"
  /\ Has(statics, EveryCounter)
  /\ Added * EveryInterval >= Modulus
  /\ Get(statics, EveryCounter).value % EveryInterval # 0

\* The delayed block of the programs of AfterPrograms: its opener is line 4.
AfterDone == <<"__after_", "1", "_done">>

AfterDelay ==
  IF src[4][3] \in {"s", "second", "seconds"}
  THEN IntLiteralValue[src[4][2]] * 1000
  ELSE IntLiteralValue[src[4][2]]

Latched == Has(statics, AfterDone) /\ Get(statics, AfterDone).value = 1

\* The next statement is the one of the body of the block.
InBody == AtStatement("statement")

\* C27: the body of a delayed block runs exactly once: not before the delay has
\* elapsed since the first pass, which captured the start time; at most once
\* over all the passes, the latch being set before the body and never cleared;
\* and once at last when loop() keeps being called and time advances.
AfterRunsOnce ==
  /\ [](pc = "run" => fired <= 1)
  /\ [](pc = "run" /\ fired = 1 => elapsed >= AfterDelay)
  /\ [](InBody => Latched /\ fired = 1)
  /\ [][Latched => Latched']_vars
  /\ (pc = "run") ~> (fired = 1)

\* The block has run, the latch holds, and loop() is entered again after the
\* clock has gone round.
AfterRanLongAgo ==
  /\ pc = "run"
  /\ fired = 1
  /\ Latched
  /\ ip = 0
  /\ elapsed >= Modulus
  /\ AfterDelay > 0

\* The pin name of a blink program and the milliseconds of its two waits.
BlinkPin == src[2][2]

WaitMs(line) ==
  IF line[3] \in {"s", "second", "seconds"}
  THEN IntLiteralValue[line[2]] * 1000
  ELSE IntLiteralValue[line[2]]

\* C30: a blink program compiles without a diagnostic; the output declares the
\* pin constant 13, then has the output mode in setup(), and in loop() the high
\* write, the delay, the low write and the delay, in this order.
BlinkCompiles ==
  pc = "done" =>
    /\ diagnostics = <<>>
    /\ setupBody = << <<"pinMode(", BlinkPin, ", ", "OUTPUT", ");">> >>
    /\ loopBody = << <<"digitalWrite(", BlinkPin, ", ", "HIGH", ");">>,
                     <<"delay(">> \o Decimal(WaitMs(src[10])) \o <<");">>,
                     <<"digitalWrite(", BlinkPin, ", ", "LOW", ");">>,
                     <<"delay(">> \o Decimal(WaitMs(src[12])) \o <<");">> >>
    /\ \E p, s, l \in 1..Len(sketch) :
         /\ p < s
         /\ s + 3 < l
         /\ sketch[p] = <<"const int ", BlinkPin, " = ", "13", ";">>
         /\ sketch[s] = <<"void setup() ", "{">>
         /\ sketch[s + 1] = <<"  ">> \o setupBody[1]
         /\ sketch[l] = <<"void loop() ", "{">>
         /\ \A k \in 1..4 : sketch[l + k] = <<"  ">> \o loopBody[k]
         /\ Len(sketch) = l + 5

\* The example as it is in the editor's list has been compiled.
BlinkExampleCompiled ==
  /\ pc = "done"
  /\ src = Blink("led", <<"500", "ms">>, <<"500", "ms">>)
  /\ diagnostics = <<>>
  /\ sketch # <<>>

\* A call has just begun: none of its lines is read.
CallBegins == pc \in {"scan", "analyse"} /\ i = 0

WalkBegins == pc = "walk" /\ i = 0

\* C29: whatever calls were made before, a call begins with an empty symbol
\* table, no diagnostic and no open block, and two calls of the same function on
\* the same source return equal code, diagnostics and symbols.
RunsAreIndependent ==
  /\ CallBegins => symbols = makeSymbols /\ diagnostics = <<>> /\ ~inStructure
  /\ WalkBegins => /\ stack = <<>>
                   /\ current = Null
                   /\ setupBody = <<>> /\ loopBody = <<>> /\ funcBodies = <<>>
                   /\ ~sawSetup /\ ~sawLoop
                   /\ internalId = 0
  /\ \A j, k \in 1..Len(results) :
       results[j].call = results[k].call /\ results[j].source = results[k].source
         => results[j] = results[k]

\* The same source was compiled before and after another one that declares
\* the name it uses.
CompiledAgainAfterAnother ==
  /\ Len(results) = 3
  /\ \A k \in 1..3 : results[k].call = "transpile"
  /\ results[1].source = results[3].source
  /\ results[2].source # results[1].source
  /\ results[2].symbols.pins # <<>>
  /\ results[1].symbols.pins = <<>>
  /\ results[1].diagnostics # <<>>

\* The line has the shape set <pin> to pwm <expr>, <pin> being one token or
\* the word pin and one token.
IsPwmWrite(code) ==
  /\ FirstWordIs(code, "set")
  /\ PwmAt(code) # {}
  /\ \/ Min(PwmAt(code)) = 3
     \/ Min(PwmAt(code)) = 4 /\ toLowerCase(code[2]) = "pin"

PwmOperand(code) == SubSeq(code, 2, Min(PwmAt(code)) - 1)

PwmTarget(code) == code[Min(PwmAt(code)) - 1]

PwmValue(code) == Slice(code, Min(PwmAt(code)) + 2)

AtPwmWrite(pass) == pc = pass /\ i < Len(src) /\ IsPwmWrite(src[i + 1])

\* No diagnostic the step adds is a conflict with a pin name.
NoPinNameConflict ==
  \A d \in AddedDiagnostics :
    \A m \in 1..Len(d.message) : d.message[m] # "\" is a pin name. Use a different variable name."

\* C31: a pulse-width write inside a block is taken by the pulse-width
\* recognizer, not by the assignment recognizer: with a pin operand that
\* resolves it emits the analog write and adds no diagnostic, otherwise it adds
\* one error and emits nothing; in neither pass does its operand become a
\* variable, and no conflict with a pin name is raised.
PwmBeforeAssignment ==
  /\ [][(AtPwmWrite("walk") /\ current # Null)
          => /\ symbols' = symbols
             /\ NoPinNameConflict
             /\ IF Resolvable(PwmOperand(src[i + 1]))
                THEN /\ diagnostics' = diagnostics
                     /\ EmittedOnly(<<"analogWrite(", PwmTarget(src[i + 1]), ", ">>
                                      \o PwmValue(src[i + 1]) \o <<");">>)
                ELSE OneErrorAdded(i + 1) /\ NothingEmitted]_vars
  /\ [][AtPwmWrite("scan") => symbols' = symbols /\ diagnostics' = diagnostics]_vars

\* A declared pin was written with a pulse width inside setup:, and the line
\* left the variable table empty.
PwmWrittenToDeclaredPin ==
  /\ pc = "walk"
  /\ i > 0
  /\ src[i] = <<"set", "a", "to", "pwm", "250">>
  /\ Has(symbols.pins, "a")
  /\ setupBody # <<>>
  /\ setupBody[Len(setupBody)] = <<"analogWrite(", "a", ", ", "250", ");">>
  /\ symbols.vars = <<>>
  /\ diagnostics = <<>>

\* The code of a raw line as the formatter tests it, and the kinds of line.
CodeOf(raw) == Lower(trim(splitLineComment(raw).code))

IsTerminator(raw) == CodeOf(raw) = <<"end">>

IsAlternate(raw) == CodeOf(raw) \in {<<"otherwise", " ", "do:">>, <<"otherwise", ":">>}

IsOpener(raw) ==
  /\ CodeOf(raw) # <<>>
  /\ CodeOf(raw)[Len(CodeOf(raw))] \in {":", "do:"}
  /\ ~IsAlternate(raw)

IsBlankLine(raw) == trim(raw) = <<>>

\* The level at which a line of the output is printed: two spaces a level.
LevelOf(printed) == (Len(printed) - Len(trimStart(printed))) \div 2

AtFormatLine == pc \in {"format", "reformat"} /\ fpos < Len(text)

Printed == out'[Len(out')]

\* What every line does, whatever its kind: one more line of output, a
\* counter that is not negative, and nothing else touched.
FormatsEveryLine ==
  /\ Len(out') = Len(out) + 1
  /\ indent >= 0 /\ indent' >= 0
  /\ diagnostics' = diagnostics
  /\ IsBlankLine(text[fpos + 1]) => Printed = <<>> /\ indent' = indent
  /\ IsOpener(text[fpos + 1]) => LevelOf(Printed) = indent /\ indent' = indent + 1
  /\ IsTerminator(text[fpos + 1])
       => /\ indent' = (IF indent = 0 THEN 0 ELSE indent - 1)
          /\ LevelOf(Printed) = indent'

\* C32 as stated: the counter is never negative; an opener raises it after it
\* is printed, a terminator lowers it (not below zero) and is printed at the
\* lowered level, and an alternate-branch line is printed one level shallower
\* and leaves the counter unchanged.
IndentCounterAsStated ==
  [][AtFormatLine
       => /\ FormatsEveryLine
          /\ IsAlternate(text[fpos + 1])
               => /\ LevelOf(Printed) = (IF indent = 0 THEN 0 ELSE indent - 1)
                  /\ indent' = indent]_vars

\* C32: as above, but an alternate-branch line leaves the counter one above
\* the level it is printed at: unchanged when the counter is positive, and
\* raised from 0 to 1 when no block is open.
IndentCounterClamped ==
  [][AtFormatLine
       => /\ FormatsEveryLine
          /\ IsAlternate(text[fpos + 1])
               => /\ LevelOf(Printed) = (IF indent = 0 THEN 0 ELSE indent - 1)
                  /\ indent' = LevelOf(Printed) + 1]_vars

\* A terminator with no block open, then an alternate-branch line with no
\* block open, which raised the counter.
StrayLinesFormatted ==
  /\ pc = "format"
  /\ fpos = 2
  /\ IsTerminator(text[1])
  /\ IsAlternate(text[2])
  /\ out = << <<"end">>, <<"otherwise", " ", "do:">> >>
  /\ indent = 1

\* C33: all through the block pass the output target is set exactly when the
\* block stack is not empty; the bottom frame is then the structural frame of
\* the target (setup, loop or function) and every frame above it is a control
\* frame.
StackShape ==
  pc \in {"walk", "done"} =>
    /\ current # Null <=> stack # <<>>
    /\ stack # <<>> =>
         /\ stack[1].type \in StructureTypes
         /\ stack[1].type = current.type
         /\ stack[1].name = current.name
         /\ \A k \in 2..Len(stack) : stack[k].type \in ControlTypes

\* Two control blocks are open inside a function.
ControlFramesInFunction ==
  /\ pc = "walk"
  /\ Len(stack) = 3
  /\ current.type = "func"
  /\ stack[2].type # stack[3].type

\* Lines of a body that open a brace (they end with "{"), lines that close
\* one (they begin with "}"), and the difference.
OpenBraces(body) ==
  Cardinality({k \in 1..Len(body) : endsWithOpen(body[k])})
    - Cardinality({k \in 1..Len(body) : startsWithClose(body[k])})

\* The body that emit writes to.
ActiveBody ==
  IF current.type = "setup" THEN setupBody
  ELSE IF current.type = "loop" THEN loopBody
  ELSE Get(funcBodies, current.name).body

ControlFrames == Cardinality({k \in 1..Len(stack) : stack[k].type \in ControlTypes})

\* The bodies that no open block writes to.
ClosedBodies ==
  (IF current.type = "setup" THEN {} ELSE {setupBody})
    \cup (IF current.type = "loop" THEN {} ELSE {loopBody})
    \cup {funcBodies[k].body : k \in {m \in 1..Len(funcBodies) :
                                 ~(current.type = "func" /\ funcBodies[m].name = current.name)}}

\* C34: an accepted terminator pops the top frame and no other; all through
\* the block pass the braces opened and not closed in the active body are as
\* many as the control frames on the stack, and the braces of every body whose
\* structural block is closed are balanced.
BracesMatchFrames ==
  /\ [](pc \in {"walk", "done"} =>
         /\ current # Null => OpenBraces(ActiveBody) = ControlFrames
         /\ \A body \in ClosedBodies : OpenBraces(body) = 0)
  /\ [][(pc = "walk" /\ i < Len(src) /\ WalkKind(src[i + 1]) = "end" /\ stack # <<>>)
          => stack' = SubSeq(stack, 1, Len(stack) - 1)]_vars

\* A control block was closed inside setup, and then setup itself.
ControlBlockClosed ==
  /\ pc = "walk"
  /\ sawSetup
  /\ current = Null
  /\ stack = <<>>
  /\ Len(setupBody) >= 2
  /\ endsWithOpen(setupBody[1])
  /\ setupBody[Len(setupBody)] = <<"}">>

\* The block pass is at a statement inside an open block, and the line has
\* the shape of one of the recognizers.
AtOwnedStatement ==
  /\ pc = "walk"
  /\ i < Len(src)
  /\ WalkKind(src[i + 1]) = "statement"
  /\ current # Null
  /\ RecognizerOf(src[i + 1]) # "none"

\* C35: a statement inside an open block that a recognizer owns emits a
\* target statement or adds a diagnostic; it is never dropped silently, also
\* when its operand is missing altogether.
NoSilentDrop ==
  [][AtOwnedStatement
       => \/ Len(diagnostics') > Len(diagnostics)
          \/ ~NothingEmitted]_vars

DiagnosticAt(lineNo) == \E m \in 1..Len(diagnostics) : diagnostics[m].line = lineNo

\* C36: when the compile has ended, every top-level pin declaration has added
\* its pin to the pin table or has a diagnostic at its line; none was dropped
\* without a word.
PinDeclarationsAnswered ==
  pc = "done" =>
    \A k \in 1..Len(src) :
      (IsPinDeclaration(src[k]) /\ TopLevel(k))
        => AddedBy(symbols.pins, src[k][2], k) \/ DiagnosticAt(k)

\* The body the block pass holds for the function n, as a sequence of at most
\* one element (empty when the function has no body at all).
BodyOf(bodies, n) == IF Has(bodies, n) THEN <<Get(bodies, n).body>> ELSE <<>>

\* Line k lies in the block that the line first opens.
InDeclaration(first, k) ==
  /\ first <= k
  /\ \A m \in first..(k - 1) : Depth(m) >= 1

\* C37: the body that is emitted for a function (forward-declared and defined
\* in the output) is only ever created or changed by the lines of the
\* declaration that the function table records under that name: a rejected
\* name gets no body, and a second declaration leaves the first one's alone.
BodiesOfRecordedDeclarations ==
  [][\A n \in DeclaredNames :
       BodyOf(funcBodies', n) # BodyOf(funcBodies, n)
         => /\ Has(symbols'.funcs, n)
            /\ InDeclaration(Get(symbols'.funcs, n).line, lineNumber)]_vars

\* The line is a control opener that fails validation: a fixed-count repeat
\* with a negative count, or a conditional or conditional repeat whose
\* condition text is blank.
FailsValidation(l) ==
  \/ WalkKind(l) = "repeat" /\ IntLiteralValue[l[2]] < 0
  \/ WalkKind(l) \in {"if", "while"} /\ blankText(SubSeq(l, 2, Len(l) - 1))

\* The block pass is inside a structure, at an opener that fails validation.
AtRejectedOpener ==
  /\ pc = "walk"
  /\ i < Len(src)
  /\ structureAllowed
  /\ FailsValidation(codeLine)

\* The block pass is at the terminator written right after such an opener.
AtEndOfRejectedOpener ==
  /\ pc = "walk"
  /\ 1 <= i
  /\ i < Len(src)
  /\ structureAllowed
  /\ FailsValidation(src[i])
  /\ WalkKind(codeLine) = "end"

\* C38: a control opener that fails validation adds one error, emits nothing
\* and leaves the block stack (and the current structure) unchanged, so the
\* terminator written for it pops the top frame, which is the frame that
\* encloses the opener.
RejectedOpenerLeavesStack ==
  [][/\ AtRejectedOpener
        => /\ OneErrorAdded(lineNumber)
           /\ NothingEmitted
           /\ UNCHANGED <<stack, current, internalId>>
     /\ AtEndOfRejectedOpener
        => /\ stack # <<>>
           /\ stack' = SubSeq(stack, 1, Len(stack) - 1)
           /\ Len(diagnostics') = Len(diagnostics)]_vars

\* A setup block whose only line is a rejected opener was closed by the
\* terminator written for the opener, and another line follows.
EnclosingFrameClosed ==
  /\ pc = "walk"
  /\ i = 3
  /\ Len(src) = 4
  /\ src[1] = <<"setup:">>
  /\ FailsValidation(src[2])
  /\ src[3] = <<"end">>
  /\ stack = <<>>
  /\ current = Null
  /\ Len(diagnostics) = 1

\* C39: one problem is reported once per compile: when the compile has ended,
\* no two entries of the diagnostics have the same line, severity and
\* message, although both passes examine every line.
ReportedOnce ==
  pc = "done" =>
    \A j, k \in 1..Len(diagnostics) :
      j < k => ~ /\ diagnostics[j].line = diagnostics[k].line
                 /\ diagnostics[j].severity = diagnostics[k].severity
                 /\ diagnostics[j].message = diagnostics[k].message

\* The double-quoted string literals of a piece of code: its quotes and the
\* characters between them, in order (a quote after a backslash is a
\* character of the literal, as in splitLineComment).
RECURSIVE quotedFrom(_, _, _)
quotedFrom(s, k, inStr) ==
  IF k > Len(s) THEN <<>>
  ELSE IF s[k] = "\"" /\ ~(k > 1 /\ s[k - 1] = "\\")
  THEN <<s[k]>> \o quotedFrom(s, k + 1, ~inStr)
  ELSE IF inStr THEN <<s[k]>> \o quotedFrom(s, k + 1, inStr)
  ELSE quotedFrom(s, k + 1, inStr)

LiteralsOf(raw) == quotedFrom(splitLineComment(raw).code, 1, FALSE)

TrailingComment(raw) == trim(splitLineComment(raw).comment)

\* C40: the formatter changes only indentation and whitespace between tokens:
\* the line it prints for a raw line has the same string literals, character
\* for character, and the same trailing comment.
LiteralsAndCommentsKept ==
  [][AtFormatLine
       => /\ Len(out') = fpos + 1
          /\ LiteralsOf(Printed) = LiteralsOf(text[fpos + 1])
          /\ TrailingComment(Printed) = TrailingComment(text[fpos + 1])]_vars

=============================================================================
